---- MODULE Spec2Model ----
(***************************************************************************)
(* orqos: the telemetry and event-distribution subsystem.                  *)
(*                                                                         *)
(*   metric_registry.rs  rolling-window registry (two stores, avg / max)   *)
(*   metric_poller.rs    one poll cycle over the running containers        *)
(*   main.rs             the poller loop (30 s timeout, 5 s sleep)         *)
(*   events.rs           the Docker event fan-out task                     *)
(*                                                                         *)
(* Time is the monotonic clock `now`, in whole seconds.  An f64 is a pair  *)
(* <<numerator, denominator>> in lowest terms (exact arithmetic; the       *)
(* values of the model are far below 2^53, where u64 <-> f64 is exact),    *)
(* and NaN is the pair <<0, 0>>.  An Option is a sequence of length 0 or   *)
(* 1.  A DashMap / HashMap is a function whose DOMAIN is its key set.      *)
(***************************************************************************)
EXTENDS Integers, Sequences, FiniteSets, TLC

(* ------------------------- program constants -------------------------- *)

MAX_WINDOW == 60

\* main.rs: tokio::time::timeout(Duration::from_secs(30), ...)
CYCLE_TIMEOUT == 30

\* main.rs: let interval = Duration::from_secs(5)
POLL_INTERVAL == 5

\* events.rs: sleep(Duration::from_secs(1)) when nobody listens
IDLE_SLEEP == 1

\* events.rs: attempt.min(5)
BACKOFF_CAP == 5

\* routes/metrics.rs: Duration::from_secs(10), the window of both lines
SCRAPE_WINDOW == 10

(* ------------------------------ bounds -------------------------------- *)

\* The clock stops advancing here.
MaxTime == 91

\* Samples ever recorded into the registry by direct calls of record_cpu /
\* record_mem, over all windows together.
MaxRecords == 3

\* Container ids.
Ids == {"c1", "c2"}

\* Amounts by which the clock advances between two steps.
TickSteps == {30, 61}

\* Query windows, in seconds (90 exceeds the retention horizon).
Windows == {0, 30, 60, 90}

\* Poll cycles started by the poller task.
MaxCycles == 2

\* The clock stops advancing here while the poller runs.
MaxPollTime == 40

\* Cumulative counters a stats response may carry.
Totals == {1000, 1800}

Systems == {10000, 10800}

\* Subscriptions in a row the fan-out task makes without a reset of attempt.
MaxAttempt == 7

\* Receivers attached to the broadcast channel at once.
MaxSubscribers == 2

\* Events the daemon's stream delivers while the channel's content is tracked.
MaxEvents == 4

\* Slots of the broadcast channel's ring buffer.  main.rs creates the channel
\* with 100; what a receiver sees when it falls behind does not depend on
\* the number, and the model keeps it small.
Capacity == 2

\* WebSocket connections to the events endpoint.
Conns == {"a", "b"}

(* ------------------------------- state -------------------------------- *)

VARIABLES
    now,        \* Instant::now(), seconds
    cpu,        \* MetricRegistry.cpu : id -> VecDeque<(Instant, f64)>
    mem,        \* MetricRegistry.mem : id -> VecDeque<(Instant, f64)>
    hist_cpu,   \* every sample ever pushed into cpu[id], in push order
    hist_mem,   \* every sample ever pushed into mem[id], in push order
    cpu_snapshots,  \* AppState.cpu_snapshots : id -> CpuSnapshot
    poll_pc,    \* where the poller task is: "start", "list_wait", "stats_wait", "sleep"
    containers, \* the rest of `for c in containers`, its head being polled
    timer,      \* when the pending timeout / sleep of the poller task expires
    cycles,     \* poll cycles started so far
    fan_pc,     \* where the fan-out task is: "check", "idle_sleep", "subscribe",
                \* "stream", "send_failed", "backoff"
    attempt,    \* events.rs: let mut attempt: u32
    received_any,   \* events.rs: let mut received_any
    sleep_secs, \* length of the sleep the fan-out task is in, 0 when in none
    rx_count,   \* tx.receiver_count(): receivers attached to the channel
    consec_fail,    \* subscriptions in a row that ended without any event
    recovered_from, \* failed attempts before the last subscription that
                    \* received an event, -1 when there was none
    fan_log,    \* the last failure the fan-out task logged: "all_gone" (line
                \* 47), "undelivered" (line 50), "stream_error" (line 59),
                \* "none" before any
    cycle_log,  \* per poll cycle: what list_containers answered and how the
                \* cycle ended
    body,       \* the poller task inside poll_metrics_into_registry: where it
                \* is in the loop body, the response at hand, the locks it
                \* holds, its requests in flight, its cycle futures alive
    scrape,     \* what the last run of metrics_handler put out for a container
    upstream,   \* events the daemon's stream has delivered so far
    chan,       \* the events sent on the broadcast channel, oldest first, each
                \* the upstream number of the event
    ws,         \* per connection: the events_ws handler and its receiver
    main_pc,    \* where main() is: "spawn_fanout", "bind", "spawn_metrics",
                \* "serve", "abort_events", "join_events", "abort_metrics",
                \* "join_metrics", "done" (Ok returned), "failed" (Err returned)
    fan_task,   \* the fan-out task: st is "unspawned", "running", "aborted"
                \* (abort() called, the future not yet dropped), "cancelled";
                \* spawns counts the calls of spawn for it
    poll_task   \* the metric polling task, likewise

regVars == <<now, cpu, mem, hist_cpu, hist_mem>>

pollVars == <<cpu_snapshots, poll_pc, containers, timer, cycles, cycle_log,
              body, scrape>>

fanVars == <<fan_pc, attempt, received_any, sleep_secs, rx_count,
             consec_fail, recovered_from, fan_log>>

wsVars == <<upstream, chan, ws>>

mainVars == <<main_pc, fan_task, poll_task>>

vars == <<now, cpu, mem, hist_cpu, hist_mem,
          cpu_snapshots, poll_pc, containers, timer, cycles,
          fan_pc, attempt, received_any, sleep_secs, rx_count,
          consec_fail, recovered_from, fan_log,
          cycle_log, upstream, chan, ws, main_pc, fan_task, poll_task,
          body, scrape>>

(* ------------------------------- values ------------------------------- *)

None == << >>

Some(v) == <<v>>

NaN == <<0, 0>>

\* +infinity
Inf == <<1, 0>>

is_nan(v) == v = NaN

RECURSIVE GCD(_, _)
GCD(a, b) == IF b = 0 THEN a ELSE GCD(b, a % b)

\* The f64 n/d (d > 0), in lowest terms.
F64(n, d) ==
    LET g == GCD(IF n < 0 THEN -n ELSE n, d)
    IN  <<n \div g, d \div g>>

\* a + b, for a, b >= 0 or NaN
F64Add(a, b) ==
    IF is_nan(a) \/ is_nan(b) THEN NaN
    ELSE IF a = Inf \/ b = Inf THEN Inf
    ELSE F64(a[1] * b[2] + b[1] * a[2], a[2] * b[2])

\* a / b, for a, b >= 0 or NaN: x / 0 is +infinity, 0 / 0 is NaN
F64Div(a, b) ==
    IF is_nan(a) \/ is_nan(b) \/ (a = Inf /\ b = Inf) THEN NaN
    ELSE IF b = Inf THEN F64(0, 1)
    ELSE IF a = Inf THEN Inf
    ELSE IF b[1] = 0 THEN (IF a[1] = 0 THEN NaN ELSE Inf)
    ELSE F64(a[1] * b[2], a[2] * b[1])

\* a * b, for finite a, b >= 0
F64Mul(a, b) ==
    IF is_nan(a) \/ is_nan(b) THEN NaN
    ELSE IF a = Inf \/ b = Inf
         THEN (IF a[1] = 0 \/ b[1] = 0 THEN NaN ELSE Inf)
         ELSE F64(a[1] * b[1], a[2] * b[2])

\* sum / n as f64, n > 0
F64DivN(a, n) == F64Div(a, <<n, 1>>)

\* a < b; false when either is NaN
F64Lt(a, b) == ~is_nan(a) /\ ~is_nan(b) /\ a[1] * b[2] < b[1] * a[2]

\* bytes as f64
U64AsF64(b) == <<b, 1>>

\* v as u64, for finite v or NaN: NaN and negatives give 0, the fraction is
\* truncated
F64AsU64(v) == IF is_nan(v) \/ v[1] < 0 THEN 0 ELSE v[1] \div v[2]

CpuValues == {F64(1, 2), F64(2, 1), NaN}

MemValues == {100, 300}

(* ------------------------- metric_registry.rs ------------------------- *)

\* now.duration_since(ts)
duration_since(ts) == now - ts

\* The loop with `>=` where the code has `>`: a sample of age 60 s is popped.
RECURSIVE pop_expired_at_horizon(_)
pop_expired_at_horizon(q) ==
    IF q # << >> /\ duration_since(Head(q)[1]) >= MAX_WINDOW
    THEN pop_expired_at_horizon(Tail(q))
    ELSE q

\* while let Some((ts, _)) = q.front() { if age > MAX_WINDOW { pop_front } else { break } }
RECURSIVE pop_expired(_)
pop_expired(q) ==
    IF q # << >> /\ duration_since(Head(q)[1]) > MAX_WINDOW
    THEN pop_expired(Tail(q))
    ELSE q

\* The same loop taken once: an `if` where the code has a `while`.
insert_sample_pop_once(q, value) ==
    LET p == Append(q, <<now, value>>)
    IN  IF duration_since(Head(p)[1]) > MAX_WINDOW THEN Tail(p) ELSE p

\* The same with push_front where the code has push_back.
insert_sample_push_front(q, value) == pop_expired(<<<<now, value>>>> \o q)

insert_sample(q, value) == pop_expired(Append(q, <<now, value>>))

\* The same with the entries removed whose samples have all expired.
entry_insert_evicting(map, id, value) ==
    [k \in {j \in DOMAIN map :
                duration_since(map[j][Len(map[j])][1]) <= MAX_WINDOW} \cup {id} |->
        IF k = id
        THEN insert_sample(IF id \in DOMAIN map THEN map[id] ELSE << >>, value)
        ELSE map[k]]

\* map.entry(id).or_default(), then insert_sample on the entry
entry_insert(map, id, value) ==
    [k \in DOMAIN map \cup {id} |->
        IF k = id
        THEN insert_sample(IF id \in DOMAIN map THEN map[id] ELSE << >>, value)
        ELSE map[k]]

record_cpu(id, usage) ==
    /\ cpu' = entry_insert(cpu, id, usage)
    /\ hist_cpu' = [hist_cpu EXCEPT ![id] = Append(@, <<now, usage>>)]

record_mem(id, bytes) ==
    /\ mem' = entry_insert(mem, id, U64AsF64(bytes))
    /\ hist_mem' = [hist_mem EXCEPT ![id] = Append(@, <<now, U64AsF64(bytes)>>)]

\* for &(ts, v) in q.iter().rev() { if age > window { break } sum += v; n += 1 }
\* from index i down; the result is <<sum, n>>.
RECURSIVE avg_loop(_, _, _, _, _)
avg_loop(q, i, window, sum, n) ==
    IF i = 0 THEN <<sum, n>>
    ELSE IF duration_since(q[i][1]) > window THEN <<sum, n>>
    ELSE avg_loop(q, i - 1, window, F64Add(sum, q[i][2]), n + 1)

\* The scan taken from the front of the deque (iter() without rev()).
RECURSIVE avg_loop_front(_, _, _, _, _)
avg_loop_front(q, i, window, sum, n) ==
    IF i > Len(q) THEN <<sum, n>>
    ELSE IF duration_since(q[i][1]) > window THEN <<sum, n>>
    ELSE avg_loop_front(q, i + 1, window, F64Add(sum, q[i][2]), n + 1)

avg_scan_front(q, window) == avg_loop_front(q, 1, window, F64(0, 1), 0)

\* The scan with the comparison the wrong way round.
RECURSIVE avg_loop_flipped(_, _, _, _, _)
avg_loop_flipped(q, i, window, sum, n) ==
    IF i = 0 THEN <<sum, n>>
    ELSE IF duration_since(q[i][1]) < window THEN <<sum, n>>
    ELSE avg_loop_flipped(q, i - 1, window, F64Add(sum, q[i][2]), n + 1)

avg_scan_flipped(q, window) == avg_loop_flipped(q, Len(q), window, F64(0, 1), 0)

avg_scan(q, window) == avg_loop(q, Len(q), window, F64(0, 1), 0)

avg(map, id, window) ==
    IF id \notin DOMAIN map THEN None
    ELSE LET r == avg_scan(map[id], window)
         IN  IF r[2] > 0 THEN Some(F64DivN(r[1], r[2])) ELSE None

cpu_avg(id, window) == avg(cpu, id, window)

\* q.iter().rev().take_while(age <= window).map(value): the values, newest first
RECURSIVE take_while_recent(_, _, _)
take_while_recent(q, i, window) ==
    IF i = 0 THEN << >>
    ELSE IF duration_since(q[i][1]) <= window
         THEN <<q[i][2]>> \o take_while_recent(q, i - 1, window)
         ELSE << >>

\* .max_by(|a, b| a.partial_cmp(b).unwrap()) over a sequence without NaN
RECURSIVE max_by(_, _)
max_by(s, best) ==
    IF s = << >> THEN best
    ELSE IF best = None \/ ~F64Lt(Head(s), best[1])
         THEN max_by(Tail(s), Some(Head(s)))
         ELSE max_by(Tail(s), best)

\* The same chain without .filter(|v| !v.is_nan()): a NaN compares as no less
\* than anything and wins.
max_unfiltered(map, id, window) ==
    IF id \notin DOMAIN map THEN None
    ELSE max_by(take_while_recent(map[id], Len(map[id]), window), None)

max(map, id, window) ==
    IF id \notin DOMAIN map THEN None
    ELSE max_by(SelectSeq(take_while_recent(map[id], Len(map[id]), window),
                          LAMBDA v : ~is_nan(v)),
                None)

mem_max(id, window) ==
    LET r == max(mem, id, window)
    IN  IF r = None THEN None ELSE Some(F64AsU64(r[1]))

(* -------------------------- metric_poller.rs -------------------------- *)

\* A one-shot stats response: stats_stream.next().await.  kind is "ok" for
\* Some(Ok(s)), "err" for Some(Err(e)), "none" for None; the other fields
\* are those of s that the poller reads (an Option is None or Some(x), a
\* present struct is TRUE; percpu_usage carries the length of the vector).
StatsReply(kind, cpu_stats, cpu_usage, system, total, percpu, memory_stats, usage) ==
    [kind |-> kind, cpu_stats |-> cpu_stats, cpu_usage |-> cpu_usage,
     system_cpu_usage |-> system, total_usage |-> total,
     percpu_usage |-> percpu, memory_stats |-> memory_stats, usage |-> usage]

\* Complete responses, with or without the memory usage.
FullReplies ==
    {StatsReply("ok", TRUE, TRUE, Some(sy), Some(t), Some(n), TRUE, m) :
        sy \in Systems, t \in Totals, n \in {0, 2}, m \in {None, Some(100)}}

\* Responses with one field absent, and the two failures.
PartialReplies ==
    {StatsReply("ok", FALSE, FALSE, None, None, None, TRUE, Some(100)),
     StatsReply("ok", TRUE, FALSE, Some(10800), None, None, TRUE, Some(100)),
     StatsReply("ok", TRUE, TRUE, None, Some(1800), Some(2), TRUE, Some(100)),
     StatsReply("ok", TRUE, TRUE, Some(10800), None, Some(2), TRUE, Some(100)),
     StatsReply("ok", TRUE, TRUE, Some(10800), Some(1800), None, TRUE, Some(100)),
     StatsReply("ok", TRUE, TRUE, Some(10800), Some(1800), Some(2), FALSE, None),
     StatsReply("err", FALSE, FALSE, None, None, None, FALSE, None),
     StatsReply("none", FALSE, FALSE, None, None, None, FALSE, None)}

StatsReplies == FullReplies \cup PartialReplies

\* What list_containers may answer: Err, or Ok with the running containers.
ListReplies ==
    {[ok |-> FALSE, list |-> << >>],
     [ok |-> TRUE, list |-> << >>],
     [ok |-> TRUE, list |-> <<"c1">>],
     [ok |-> TRUE, list |-> <<"c2">>],
     [ok |-> TRUE, list |-> <<"c1", "c2">>],
     [ok |-> TRUE, list |-> <<"c2", "c1">>]}

\* list_containers answers Err.
ListFailed == [ok |-> FALSE, list |-> << >>]

\* Option<u64>::unwrap_or_default
unwrap_or_default(o) == IF o = None THEN 0 ELSE o[1]

\* u64::saturating_sub
saturating_sub(a, b) == IF a > b THEN a - b ELSE 0

CpuSnapshot(total, sys) == [total_usage |-> total, system_usage |-> sys]

\* The fraction without the core count.
cpu_fraction_one_core(cpu_delta, sys_delta, cores) ==
    F64Div(U64AsF64(cpu_delta), U64AsF64(sys_delta))

\* The fraction clamped to the range of one whole machine, 0.0 to 1.0.
cpu_fraction_clamped(cpu_delta, sys_delta, cores) ==
    LET v == F64Mul(F64Div(U64AsF64(cpu_delta), U64AsF64(sys_delta)), U64AsF64(cores))
    IN  IF F64Lt(F64(1, 1), v) THEN F64(1, 1) ELSE v

\* (cpu_delta as f64 / sys_delta as f64) * cores
cpu_fraction(cpu_delta, sys_delta, cores) ==
    F64Mul(F64Div(U64AsF64(cpu_delta), U64AsF64(sys_delta)), U64AsF64(cores))

\* The CPU part of the loop body as the design text has it: 0.0 is recorded
\* on the first observation of a container.
cpu_update_zero_first(id, total, sys, cores) ==
    IF id \in DOMAIN cpu_snapshots
    THEN LET prev == cpu_snapshots[id]
             cpu_delta == saturating_sub(total, prev.total_usage)
             sys_delta == saturating_sub(sys, prev.system_usage)
         IN  IF sys_delta > 0 /\ cpu_delta > 0
             THEN record_cpu(id, cpu_fraction(cpu_delta, sys_delta, cores))
             ELSE UNCHANGED <<cpu, hist_cpu>>
    ELSE record_cpu(id, F64(0, 1))

\* The CPU part of the loop body as the design text has it: 0.0 is recorded
\* when a delta is zero.
cpu_update_zero_delta(id, total, sys, cores) ==
    IF id \in DOMAIN cpu_snapshots
    THEN LET prev == cpu_snapshots[id]
             cpu_delta == saturating_sub(total, prev.total_usage)
             sys_delta == saturating_sub(sys, prev.system_usage)
         IN  IF sys_delta > 0 /\ cpu_delta > 0
             THEN record_cpu(id, cpu_fraction(cpu_delta, sys_delta, cores))
             ELSE record_cpu(id, F64(0, 1))
    ELSE UNCHANGED <<cpu, hist_cpu>>

\* The CPU part of the loop body with the test `sys_delta > 0` alone.
cpu_update_sys_delta_only(id, total, sys, cores) ==
    IF id \in DOMAIN cpu_snapshots
    THEN LET prev == cpu_snapshots[id]
             cpu_delta == saturating_sub(total, prev.total_usage)
             sys_delta == saturating_sub(sys, prev.system_usage)
         IN  IF sys_delta > 0
             THEN record_cpu(id, cpu_fraction(cpu_delta, sys_delta, cores))
             ELSE UNCHANGED <<cpu, hist_cpu>>
    ELSE UNCHANGED <<cpu, hist_cpu>>

\* if let Some(prev) = snapshots.get(&id) { ... record_cpu ... }
cpu_update(id, total, sys, cores) ==
    IF id \in DOMAIN cpu_snapshots
    THEN LET prev == cpu_snapshots[id]
             cpu_delta == saturating_sub(total, prev.total_usage)
             sys_delta == saturating_sub(sys, prev.system_usage)
         IN  IF sys_delta > 0 /\ cpu_delta > 0
             THEN record_cpu(id, cpu_fraction(cpu_delta, sys_delta, cores))
             ELSE UNCHANGED <<cpu, hist_cpu>>
    ELSE UNCHANGED <<cpu, hist_cpu>>

\* let Some(mem_stats) = s.memory_stats else { continue };
\* let Some(mem_bytes) = mem_stats.usage else { continue }; record_mem
mem_update(id, r) ==
    IF r.memory_stats /\ r.usage # None
    THEN record_mem(id, r.usage[1])
    ELSE UNCHANGED <<mem, hist_mem>>

\* The body with a tracker that keeps the snapshot of one container only.
poll_body_single_snapshot(id, r) ==
    IF r.kind = "ok" /\ r.cpu_stats /\ r.cpu_usage
       /\ r.system_cpu_usage # None /\ r.percpu_usage # None
    THEN LET total == unwrap_or_default(r.total_usage)
             sys == r.system_cpu_usage[1]
             cores == IF r.percpu_usage[1] > 1 THEN r.percpu_usage[1] ELSE 1
         IN  /\ cpu_update(id, total, sys, cores)
             /\ cpu_snapshots' = [k \in {id} |-> CpuSnapshot(total, sys)]
             /\ mem_update(id, r)
    ELSE UNCHANGED <<cpu, hist_cpu, cpu_snapshots, mem, hist_mem>>

\* The body of `for c in containers` once the stats response r for id is in.
poll_body(id, r) ==
    IF r.kind = "ok" /\ r.cpu_stats /\ r.cpu_usage
       /\ r.system_cpu_usage # None /\ r.percpu_usage # None
    THEN LET total == unwrap_or_default(r.total_usage)
             sys == r.system_cpu_usage[1]
             cores == IF r.percpu_usage[1] > 1 THEN r.percpu_usage[1] ELSE 1
         IN  /\ cpu_update(id, total, sys, cores)
             /\ cpu_snapshots' =
                    [k \in DOMAIN cpu_snapshots \cup {id} |->
                        IF k = id THEN CpuSnapshot(total, sys) ELSE cpu_snapshots[k]]
             /\ mem_update(id, r)
    ELSE UNCHANGED <<cpu, hist_cpu, cpu_snapshots, mem, hist_mem>>

\* What the log keeps of the poll cycles so far.  list_ok: the answer of
\* list_containers in the current cycle ("pending", "ok", "err"); hung: the
\* containers on whose stats every cycle so far was abandoned, after some
\* time of waiting; listed: the containers every cycle so far had in its
\* list; bad: the containers with a stats request that was answered by a
\* failure or an incomplete response; since: when the request now awaited
\* was made.
CycleLog(list_ok, hung, listed, bad, since) ==
    [list_ok |-> list_ok, hung |-> hung, listed |-> listed, bad |-> bad,
     since |-> since]

\* The poller task inside one call of poll_metrics_into_registry.  pc:
\* "none" (not in the loop body), "await" (stats_stream.next().await),
\* "lock_wait" (cpu_snapshots.write().await), "locked" (line 53),
\* "cpu_guard" (inside record_cpu, the entry guard held), "snap" (line 67),
\* "mem_guard" (inside record_mem), "end" (the end of the match arm);
\* reply: the response being processed; held: the locks and guards the
\* task holds; inflight: stats requests sent and neither answered nor
\* dropped; alive: cycle futures created and neither returned nor dropped.
Body(pc, reply, held, inflight, alive) ==
    [pc |-> pc, reply |-> reply, held |-> held, inflight |-> inflight,
     alive |-> alive]

\* What metrics_handler wrote for one container: the values behind the
\* two lines, None for a line left out.
Scrape(id, avg10, max10) == [id |-> id, cpu |-> avg10, mem |-> max10]

\* The response is Some(Ok(s)) with every field the loop body reads.
answers(r) ==
    /\ r.kind = "ok" /\ r.cpu_stats /\ r.cpu_usage
    /\ r.system_cpu_usage # None /\ r.percpu_usage # None
    /\ r.memory_stats /\ r.usage # None

Range(q) == {q[i] : i \in 1..Len(q)}

\* An events_ws handler and its receiver.  pc: "none" (no connection yet),
\* "recv" (awaiting rx.recv()), "send" (awaiting socket.send()), "done" (the
\* future is over, rx is dropped); next: the position in chan of the next
\* value rx yields; first: next at subscription; got: the events rx.recv()
\* returned Ok with; lagged: rx.recv() returned Err(Lagged); open: the
\* client is still connected; failed: sends that returned Err.
Handler(pc, next, first, got, lagged, open, failed) ==
    [pc |-> pc, next |-> next, first |-> first, got |-> got,
     lagged |-> lagged, open |-> open, failed |-> failed]

NoConn == Handler("none", 0, 0, << >>, FALSE, FALSE, 0)

(* ------------------------------ actions ------------------------------- *)

RECURSIVE SumLen(_, _)
SumLen(h, S) ==
    IF S = {} THEN 0
    ELSE LET id == CHOOSE x \in S : TRUE
         IN  Len(h[id]) + SumLen(h, S \ {id})

\* Samples ever recorded, over both stores.
Recorded == SumLen(hist_cpu, Ids) + SumLen(hist_mem, Ids)

\* A spawned task as main() sees it through its JoinHandle.
Task(st, spawns) == [st |-> st, spawns |-> spawns]

\* The state with main() at pc and both tasks as given.
InitWith(pc, task) ==
    /\ now = 0
    /\ cpu = << >>
    /\ mem = << >>
    /\ hist_cpu = [id \in Ids |-> << >>]
    /\ hist_mem = [id \in Ids |-> << >>]
    /\ cpu_snapshots = << >>
    /\ poll_pc = "start"
    /\ containers = << >>
    /\ timer = 0
    /\ cycles = 0
    /\ fan_pc = "check"
    /\ attempt = 0
    /\ received_any = FALSE
    /\ sleep_secs = 0
    /\ rx_count = 0
    /\ consec_fail = 0
    /\ recovered_from = -1
    /\ fan_log = "none"
    /\ cycle_log = CycleLog("pending", Ids, Ids, {}, 0)
    /\ body = Body("none", None, {}, 0, 0)
    /\ scrape = Scrape("", None, None)
    /\ upstream = 0
    /\ chan = << >>
    /\ ws = [h \in Conns |-> NoConn]
    /\ main_pc = pc
    /\ fan_task = task
    /\ poll_task = task

\* The state once main() has spawned both tasks and serves HTTP.
Init == InitWith("serve", Task("running", 1))

\* The clock advances.
Tick ==
    \E d \in TickSteps :
        /\ now + d <= MaxTime
        /\ now' = now + d
        /\ UNCHANGED <<cpu, mem, hist_cpu, hist_mem, pollVars, fanVars, wsVars, mainVars>>

\* MetricRegistry::record_cpu called with any f64
RecordCpu ==
    \E id \in Ids, v \in CpuValues :
        /\ Recorded < MaxRecords
        /\ record_cpu(id, v)
        /\ UNCHANGED <<now, mem, hist_mem, pollVars, fanVars, wsVars, mainVars>>

\* MetricRegistry::record_mem called with any byte count
RecordMem ==
    \E id \in Ids, b \in MemValues :
        /\ Recorded < MaxRecords
        /\ record_mem(id, b)
        /\ UNCHANGED <<now, cpu, hist_cpu, pollVars, fanVars, wsVars, mainVars>>

\* MetricRegistry::cpu_avg(id, w) called: map.get(id) and a scan through a
\* shared reference; the caller gets cpu_avg(id, w), the registry is not written.
CpuAvg ==
    \E id \in Ids, w \in Windows :
        /\ Len(cpu_avg(id, w)) <= 1
        /\ UNCHANGED vars

\* MetricRegistry::mem_max(id, w) called: likewise a read.
MemMax ==
    \E id \in Ids, w \in Windows :
        /\ Len(mem_max(id, w)) <= 1
        /\ UNCHANGED vars

NextRegistry == Tick \/ RecordCpu \/ RecordMem \/ CpuAvg \/ MemMax

SpecRegistry == Init /\ [][NextRegistry]_vars

\* The timeout that is never armed.
timeout_never(t) == FALSE

\* tokio::time::timeout(Duration::from_secs(30), ..): the deadline t is reached
timeout_elapsed(t) == now >= t

\* Time passes while the poller task waits (for a response or in its sleep):
\* the clock moves on to the expiry of the task's pending timer.
PollTickUntil(limit) ==
    /\ poll_pc # "start"
    /\ body.pc \in {"none", "await", "lock_wait"}
    /\ now < timer
    /\ timer <= limit
    /\ now' = timer
    /\ UNCHANGED <<cpu, mem, hist_cpu, hist_mem, pollVars, fanVars, wsVars, mainVars>>

PollTick == PollTickUntil(MaxPollTime)

\* main.rs: the loop body begins: timeout(30 s, poll_metrics_into_registry)
\* is polled and the cycle sends its list_containers request.
PollStart ==
    /\ poll_pc = "start"
    /\ cycles < MaxCycles
    /\ cycles' = cycles + 1
    /\ poll_pc' = "list_wait"
    /\ timer' = now + CYCLE_TIMEOUT
    /\ cycle_log' = [cycle_log EXCEPT !.list_ok = "pending", !.since = now]
    /\ body' = [body EXCEPT !.alive = @ + 1]
    /\ UNCHANGED <<regVars, cpu_snapshots, containers, scrape, fanVars, wsVars, mainVars>>

\* The cycle is over (the function returned): main.rs sleeps for the interval.
cycle_done ==
    /\ poll_pc' = "sleep"
    /\ containers' = << >>
    /\ timer' = now + POLL_INTERVAL

\* list_containers(..).await resolves.  Err: the `if let Ok` falls through
\* and the function returns.  Ok: the loop starts on the first container.
\* The same with a failure to list handled by starting over at once.
PollListRetries(r) ==
    /\ poll_pc = "list_wait"
    /\ IF r.ok /\ r.list # << >>
       THEN /\ poll_pc' = "stats_wait"
            /\ containers' = r.list
            /\ UNCHANGED timer
            /\ cycle_log' = [cycle_log EXCEPT
                    !.list_ok = "ok", !.listed = @ \cap Range(r.list),
                    !.since = now]
            /\ body' = [body EXCEPT !.pc = "await", !.inflight = @ + 1]
       ELSE /\ IF r.ok THEN cycle_done
                       ELSE poll_pc' = "start" /\ UNCHANGED <<containers, timer>>
            /\ cycle_log' = [cycle_log EXCEPT
                    !.list_ok = IF r.ok THEN "ok" ELSE "err",
                    !.hung = {}, !.listed = {}]
            /\ body' = [body EXCEPT !.alive = @ - 1]
    /\ UNCHANGED <<regVars, cpu_snapshots, cycles, scrape, fanVars, wsVars, mainVars>>

PollListWith(r) ==
    /\ poll_pc = "list_wait"
    /\ IF r.ok /\ r.list # << >>
       THEN /\ poll_pc' = "stats_wait"
            /\ containers' = r.list
            /\ UNCHANGED timer
            /\ cycle_log' = [cycle_log EXCEPT
                    !.list_ok = "ok", !.listed = @ \cap Range(r.list),
                    !.since = now]
            /\ body' = [body EXCEPT !.pc = "await", !.inflight = @ + 1]
       ELSE /\ cycle_done
            /\ cycle_log' = [cycle_log EXCEPT
                    !.list_ok = IF r.ok THEN "ok" ELSE "err",
                    !.hung = {}, !.listed = {}]
            /\ body' = [body EXCEPT !.alive = @ - 1]
    /\ UNCHANGED <<regVars, cpu_snapshots, cycles, scrape, fanVars, wsVars, mainVars>>

PollList == \E r \in ListReplies : PollListWith(r)


\* stats_stream.next().await resolves with r for the container being polled:
\* the loop body runs to its end and the loop goes on or the function returns.
\* The same with a failed response ending the whole loop.
PollStatsForAborting(id, r) ==
    /\ poll_pc = "stats_wait"
    /\ body.pc = "await"
    /\ containers # << >>
    /\ id = Head(containers)
    /\ poll_body(id, r)
    /\ IF Tail(containers) # << >> /\ r.kind = "ok"
       THEN /\ containers' = Tail(containers)
            /\ UNCHANGED <<poll_pc, timer, body>>
            /\ cycle_log' = [cycle_log EXCEPT
                    !.bad = IF answers(r) THEN @ ELSE @ \cup {id},
                    !.since = now]
       ELSE /\ cycle_done
            /\ body' = [body EXCEPT !.pc = "none", !.inflight = @ - 1,
                                    !.alive = @ - 1]
            /\ cycle_log' = [cycle_log EXCEPT
                    !.hung = {},
                    !.bad = IF answers(r) THEN @ ELSE @ \cup {id}]
    /\ UNCHANGED <<now, cycles, scrape, fanVars, wsVars, mainVars>>

PollStatsFor(id, r) ==
    /\ poll_pc = "stats_wait"
    /\ body.pc = "await"
    /\ containers # << >>
    /\ id = Head(containers)
    /\ poll_body(id, r)
    /\ IF Tail(containers) # << >>
       THEN /\ containers' = Tail(containers)
            /\ UNCHANGED <<poll_pc, timer, body>>
            /\ cycle_log' = [cycle_log EXCEPT
                    !.bad = IF answers(r) THEN @ ELSE @ \cup {id},
                    !.since = now]
       ELSE /\ cycle_done
            /\ body' = [body EXCEPT !.pc = "none", !.inflight = @ - 1,
                                    !.alive = @ - 1]
            /\ cycle_log' = [cycle_log EXCEPT
                    !.hung = {},
                    !.bad = IF answers(r) THEN @ ELSE @ \cup {id}]
    /\ UNCHANGED <<now, cycles, scrape, fanVars, wsVars, mainVars>>

PollStatsIn(replies) == \E id \in Ids, r \in replies : PollStatsFor(id, r)

PollStats == PollStatsIn(StatsReplies)

\* The cycle that is left running when its time is up.
timeout_drops_nothing(b) == [b EXCEPT !.pc = "none", !.reply = None]

\* Dropping the future of poll_metrics_into_registry drops what it owns:
\* the stats stream with its request, and any guard.
timeout_drops(b) == Body("none", None, {}, 0, b.alive - 1)

\* main.rs: the 30 s timeout expires while the cycle awaits a response or
\* the write lock: the future of the cycle is dropped and the interval
\* sleep begins.
PollTimeout ==
    /\ poll_pc \in {"list_wait", "stats_wait"}
    /\ body.pc \in {"none", "await", "lock_wait"}
    /\ timeout_elapsed(timer)
    /\ cycle_done
    /\ body' = timeout_drops(body)
    /\ cycle_log' =
            IF poll_pc = "stats_wait" /\ cycle_log.since < now
            THEN [cycle_log EXCEPT !.hung = @ \cap {Head(containers)}]
            ELSE [cycle_log EXCEPT !.hung = {}, !.listed = {}]
    /\ UNCHANGED <<regVars, cpu_snapshots, cycles, scrape, fanVars, wsVars, mainVars>>

\* main.rs: tokio::time::sleep(interval) is over.
PollWake ==
    /\ poll_pc = "sleep"
    /\ now >= timer
    /\ poll_pc' = "start"
    /\ UNCHANGED <<regVars, cpu_snapshots, containers, timer, cycles, cycle_log,
                   body, scrape, fanVars, wsVars, mainVars>>

NextPoller == PollTick \/ PollStart \/ PollList \/ PollStats \/ PollTimeout \/ PollWake

SpecPoller == Init /\ [][NextPoller]_vars

\* The poller loop over all the cycles of the model, none cut short by the
\* end of the clock, with a daemon that answers a stats request with one of
\* two complete responses or a failure, or not at all.
CycleReplies ==
    {StatsReply("ok", TRUE, TRUE, Some(10000), Some(1000), Some(2), TRUE, Some(100)),
     StatsReply("ok", TRUE, TRUE, Some(10800), Some(1800), Some(2), TRUE, Some(300)),
     StatsReply("err", FALSE, FALSE, None, None, None, FALSE, None)}

\* No timer of the poller task is set later than this.
LastDeadline == MaxCycles * (CYCLE_TIMEOUT + POLL_INTERVAL)

PollTickAny == PollTickUntil(LastDeadline)

PollStatsSome == PollStatsIn(CycleReplies)

NextCycles ==
    PollTickAny \/ PollStart \/ PollList \/ PollStatsSome \/ PollTimeout \/ PollWake

\* The timers of the runtime fire (time passes, an expired timeout or sleep
\* wakes the task, a woken task runs); no response of the daemon is ever due.
SpecCycles ==
    /\ Init /\ [][NextCycles]_vars
    /\ WF_vars(PollTickAny)
    /\ WF_vars(PollStart)
    /\ WF_vars(PollTimeout)
    /\ WF_vars(PollWake)

(* ------------- the loop body step by step, and a reader -------------- *)

\* The response gets past the four let-else of lines 32-48.
cpu_fields(r) ==
    /\ r.kind = "ok" /\ r.cpu_stats /\ r.cpu_usage
    /\ r.system_cpu_usage # None /\ r.percpu_usage # None

\* The loop body is over for the container at hand, with the task as in b
\* and the log as in log: the request for the next container is sent
\* (lines 22-30), or the function returns.
body_next(b, log) ==
    IF Tail(containers) # << >>
    THEN /\ containers' = Tail(containers)
         /\ UNCHANGED <<poll_pc, timer>>
         /\ body' = [b EXCEPT !.pc = "await", !.reply = None,
                              !.inflight = @ + 1]
         /\ cycle_log' = [log EXCEPT !.since = now]
    ELSE /\ cycle_done
         /\ body' = [b EXCEPT !.pc = "none", !.reply = None, !.alive = @ - 1]
         /\ cycle_log' = [log EXCEPT !.hung = {}]

\* Line 30: stats_stream.next().await resolves with r.  Some(Err), None and
\* a response without one of the CPU fields end the loop body at once.
BodyReply(r) ==
    /\ poll_pc = "stats_wait"
    /\ body.pc = "await"
    /\ containers # << >>
    /\ LET id == Head(containers)
           log == [cycle_log EXCEPT
                    !.bad = IF answers(r) THEN @ ELSE @ \cup {id}]
       IN  IF cpu_fields(r)
           THEN /\ body' = [body EXCEPT !.pc = "lock_wait", !.reply = r,
                                        !.inflight = @ - 1]
                /\ cycle_log' = log
                /\ UNCHANGED <<poll_pc, containers, timer>>
           ELSE body_next([body EXCEPT !.inflight = @ - 1], log)
    /\ UNCHANGED <<regVars, cpu_snapshots, cycles, scrape, fanVars, wsVars, mainVars>>

\* Line 51: cpu_snapshots.write().await resolves: the task holds the write
\* guard of the snapshots.
BodyLock ==
    /\ body.pc = "lock_wait"
    /\ body' = [body EXCEPT !.pc = "locked", !.held = @ \cup {"cpu_snapshots"}]
    /\ UNCHANGED <<regVars, cpu_snapshots, poll_pc, containers, timer, cycles,
                   cycle_log, scrape, fanVars, wsVars, mainVars>>

\* total, sys and cores of the response at hand (lines 40-49)
reply_total == unwrap_or_default(body.reply.total_usage)

reply_sys == body.reply.system_cpu_usage[1]

reply_cores ==
    IF body.reply.percpu_usage[1] > 1 THEN body.reply.percpu_usage[1] ELSE 1

\* Lines 53-61: prev is looked up and the deltas compared; when a sample is
\* due record_cpu is entered and takes the guard of its entry (registry
\* line 25).
BodyCpuEntry ==
    /\ body.pc = "locked"
    /\ LET id == Head(containers)
           due == /\ id \in DOMAIN cpu_snapshots
                  /\ saturating_sub(reply_total, cpu_snapshots[id].total_usage) > 0
                  /\ saturating_sub(reply_sys, cpu_snapshots[id].system_usage) > 0
       IN  body' = IF due
                   THEN [body EXCEPT !.pc = "cpu_guard", !.held = @ \cup {"cpu"}]
                   ELSE [body EXCEPT !.pc = "snap"]
    /\ UNCHANGED <<regVars, cpu_snapshots, poll_pc, containers, timer, cycles,
                   cycle_log, scrape, fanVars, wsVars, mainVars>>

\* The loop body with the write lock of the snapshots taken after
\* record_cpu: the task is at cpu_snapshots.write().await with the CPU
\* sample recorded.
BodyRecordCpuThenLock ==
    /\ body.pc = "cpu_guard"
    /\ cpu_update(Head(containers), reply_total, reply_sys, reply_cores)
    /\ body' = [body EXCEPT !.pc = "lock_wait", !.held = {}]
    /\ UNCHANGED <<now, mem, hist_mem, cpu_snapshots, poll_pc, containers, timer,
                   cycles, cycle_log, scrape, fanVars, wsVars, mainVars>>

\* Registry lines 26-27: insert_sample on the entry, and the guard is
\* dropped as record_cpu returns.
BodyRecordCpu ==
    /\ body.pc = "cpu_guard"
    /\ cpu_update(Head(containers), reply_total, reply_sys, reply_cores)
    /\ body' = [body EXCEPT !.pc = "snap", !.held = @ \ {"cpu"}]
    /\ UNCHANGED <<now, mem, hist_mem, cpu_snapshots, poll_pc, containers, timer,
                   cycles, cycle_log, scrape, fanVars, wsVars, mainVars>>

\* Lines 67-82: snapshots.insert, then the two let-else of the memory
\* part; with the usage present record_mem is entered and takes the guard
\* of its entry.
BodySnapshot ==
    /\ body.pc = "snap"
    /\ cpu_snapshots' =
            [k \in DOMAIN cpu_snapshots \cup {Head(containers)} |->
                IF k = Head(containers) THEN CpuSnapshot(reply_total, reply_sys)
                ELSE cpu_snapshots[k]]
    /\ body' = IF body.reply.memory_stats /\ body.reply.usage # None
               THEN [body EXCEPT !.pc = "mem_guard", !.held = @ \cup {"mem"}]
               ELSE [body EXCEPT !.pc = "end"]
    /\ UNCHANGED <<regVars, poll_pc, containers, timer, cycles,
                   cycle_log, scrape, fanVars, wsVars, mainVars>>

\* Line 83 and registry lines 31-32: insert_sample on the entry, and the
\* guard is dropped as record_mem returns.
BodyRecordMem ==
    /\ body.pc = "mem_guard"
    /\ mem_update(Head(containers), body.reply)
    /\ body' = [body EXCEPT !.pc = "end", !.held = @ \ {"mem"}]
    /\ UNCHANGED <<now, cpu, hist_cpu, cpu_snapshots, poll_pc, containers, timer,
                   cycles, cycle_log, scrape, fanVars, wsVars, mainVars>>

\* The match arm that keeps the write guard of the snapshots.
BodyEndKeepsGuard ==
    /\ body.pc = "end"
    /\ body_next(body, cycle_log)
    /\ UNCHANGED <<regVars, cpu_snapshots, cycles, scrape, fanVars, wsVars, mainVars>>

\* Line 84 (or a `continue` of lines 75-82): the match arm ends and the
\* write guard of the snapshots is dropped; the loop goes on.
BodyEnd ==
    /\ body.pc = "end"
    /\ body_next([body EXCEPT !.held = {}], cycle_log)
    /\ UNCHANGED <<regVars, cpu_snapshots, cycles, scrape, fanVars, wsVars, mainVars>>

\* The handler visiting the ids of both maps.
MetricsHandlerBothMaps ==
    /\ \E id \in DOMAIN cpu \cup DOMAIN mem :
        /\ ~(containers # << >> /\ id = Head(containers)
              /\ body.held \cap {"cpu", "mem"} # {})
        /\ scrape' = Scrape(id, cpu_avg(id, SCRAPE_WINDOW), mem_max(id, SCRAPE_WINDOW))
    /\ UNCHANGED <<regVars, cpu_snapshots, poll_pc, containers, timer, cycles,
                   cycle_log, body, fanVars, wsVars, mainVars>>

\* routes/metrics.rs lines 11-24: metrics_handler visits an entry of the
\* cpu map and computes both lines for its id.  It runs on a worker thread
\* of its own, at any moment; a get on an entry whose guard the poller
\* holds waits for it.
MetricsHandler ==
    /\ \E id \in DOMAIN cpu :
        /\ ~(containers # << >> /\ id = Head(containers)
              /\ body.held \cap {"cpu", "mem"} # {})
        /\ scrape' = Scrape(id, cpu_avg(id, SCRAPE_WINDOW), mem_max(id, SCRAPE_WINDOW))
    /\ UNCHANGED <<regVars, cpu_snapshots, poll_pc, containers, timer, cycles,
                   cycle_log, body, fanVars, wsVars, mainVars>>

\* The daemon answers a stats request with a complete response, with one
\* that lacks the memory usage, or with a failure.
BodyReplies ==
    CycleReplies \cup
        {StatsReply("ok", TRUE, TRUE, Some(10800), Some(1800), Some(2), FALSE, None)}

BodyStats == \E r \in BodyReplies : BodyReply(r)

\* list_containers fails, or answers with c1 alone or with c1 and c2.
BodyLists ==
    {ListFailed, [ok |-> TRUE, list |-> <<"c1">>],
     [ok |-> TRUE, list |-> <<"c1", "c2">>]}

BodyList == \E r \in BodyLists : PollListWith(r)

NextBody ==
    \/ PollTickAny \/ PollStart \/ BodyList \/ PollTimeout \/ PollWake
    \/ BodyStats \/ BodyLock \/ BodyCpuEntry \/ BodyRecordCpu \/ BodySnapshot
    \/ BodyRecordMem \/ BodyEnd
    \/ MetricsHandler

SpecBody == Init /\ [][NextBody]_vars

(* ------------------------------ events.rs ------------------------------ *)

\* What stream.next().await may resolve to: Some(Ok(ev)) with an event that
\* serializes, Some(Ok(ev)) with one that does not, Some(Err(e)), None.
StreamItems == {"event", "unserializable", "error", "closed"}

\* The check that never parks.
parks_never(count) == FALSE

\* if tx.receiver_count() == 0 (line 25)
parks(count) == count = 0

\* The back-off without the cap.
backoff_uncapped(n) == 2 ^ n

\* 2u64.pow(attempt.min(5))
backoff_secs(n) == 2 ^ (IF n < BACKOFF_CAP THEN n ELSE BACKOFF_CAP)

\* The counter left as it is.
attempt_kept(any, n) == n

\* if received_any { attempt = 0 }
attempt_after(any, n) == IF any THEN 0 ELSE n

\* The subscription is over and the task returns instead of backing off.
stream_over_exits ==
    /\ attempt' = attempt_after(received_any', attempt)
    /\ sleep_secs' = 0
    /\ fan_pc' = "exited"
    /\ consec_fail' = IF received_any' THEN 0 ELSE consec_fail + 1
    /\ recovered_from' = IF received_any' THEN consec_fail ELSE recovered_from

\* The subscription is over and the loop starts again without the sleep.
stream_over_skips_backoff ==
    /\ attempt' = attempt_after(received_any', attempt)
    /\ sleep_secs' = 0
    /\ fan_pc' = "check"
    /\ consec_fail' = IF received_any' THEN 0 ELSE consec_fail + 1
    /\ recovered_from' = IF received_any' THEN consec_fail ELSE recovered_from

\* Lines 65-71: the subscription is over (break, or the stream ended): the
\* counter is reset if an event was received, and the back-off sleep begins.
stream_over ==
    /\ attempt' = attempt_after(received_any', attempt)
    /\ sleep_secs' = backoff_secs(attempt')
    /\ fan_pc' = "backoff"
    /\ consec_fail' = IF received_any' THEN 0 ELSE consec_fail + 1
    /\ recovered_from' = IF received_any' THEN consec_fail ELSE recovered_from

\* Line 25: the loop reads the receiver count; with none it goes to sleep
\* for a second, otherwise it goes on to subscribe.
FanCheck ==
    /\ fan_pc = "check"
    /\ IF parks(rx_count)
       THEN fan_pc' = "idle_sleep" /\ sleep_secs' = IDLE_SLEEP
       ELSE fan_pc' = "subscribe" /\ sleep_secs' = 0
    /\ UNCHANGED <<attempt, received_any, rx_count, consec_fail, recovered_from, fan_log>>
    /\ UNCHANGED <<regVars, pollVars, wsVars, mainVars>>

\* Line 26-27: the one-second sleep is over; continue.
FanIdleWake ==
    /\ fan_pc = "idle_sleep"
    /\ fan_pc' = "check"
    /\ sleep_secs' = 0
    /\ UNCHANGED <<attempt, received_any, rx_count, consec_fail, recovered_from, fan_log>>
    /\ UNCHANGED <<regVars, pollVars, wsVars, mainVars>>

\* Lines 31-36: attempt += 1, docker.events(..) is called, received_any = false.
FanSubscribe ==
    /\ fan_pc = "subscribe"
    /\ attempt < MaxAttempt
    /\ attempt' = attempt + 1
    /\ received_any' = FALSE
    /\ fan_pc' = "stream"
    /\ UNCHANGED <<sleep_secs, rx_count, consec_fail, recovered_from, fan_log>>
    /\ UNCHANGED <<regVars, pollVars, wsVars, mainVars>>

\* Lines 38-62: stream.next().await resolves.  An event is serialized and
\* sent (tx.send fails exactly when no receiver is attached); an error or
\* the end of the stream leaves the loop.
FanNextMsg(msg) ==
    /\ fan_pc = "stream"
    /\ CASE msg = "event" ->
                /\ received_any' = TRUE
                /\ fan_pc' = IF rx_count = 0 THEN "send_failed" ELSE "stream"
                /\ UNCHANGED <<attempt, sleep_secs, consec_fail, recovered_from, fan_log>>
          [] msg = "unserializable" ->
                /\ received_any' = TRUE
                /\ UNCHANGED <<fan_pc, attempt, sleep_secs, consec_fail, recovered_from, fan_log>>
          [] OTHER ->
                /\ UNCHANGED received_any
                /\ fan_log' = IF msg = "error" THEN "stream_error" ELSE fan_log
                /\ stream_over
    /\ UNCHANGED rx_count
    /\ UNCHANGED <<regVars, pollVars, mainVars>>

\* The wait for the stream raced against the channel losing its last
\* receiver: with none attached the subscription is ended at once.
FanNextWatchingReceivers ==
    \/ \E msg \in StreamItems : FanNextMsg(msg) /\ UNCHANGED wsVars
    \/ /\ fan_pc = "stream"
       /\ rx_count = 0
       /\ UNCHANGED <<received_any, rx_count>>
       /\ fan_log' = "all_gone"
       /\ stream_over
       /\ UNCHANGED <<regVars, pollVars, wsVars, mainVars>>

\* The same step where only the receiver count of the channel is followed.
FanNext == \E msg \in StreamItems : FanNextMsg(msg) /\ UNCHANGED wsVars

\* The failed send that never ends the subscription.
all_gone_never(count) == FALSE

\* The failed send that always ends the subscription.
all_gone_always(count) == TRUE

\* if tx.receiver_count() == 0 (line 46)
all_gone(count) == count = 0

\* Lines 46-54: after a failed send the receiver count is read again: with
\* none the loop is left, otherwise a warning is logged and the loop goes on.
FanSendFailed ==
    /\ fan_pc = "send_failed"
    /\ IF all_gone(rx_count)
       THEN /\ UNCHANGED received_any
            /\ fan_log' = "all_gone"
            /\ stream_over
       ELSE /\ fan_pc' = "stream"
            /\ fan_log' = "undelivered"
            /\ UNCHANGED <<attempt, received_any, sleep_secs, consec_fail, recovered_from>>
    /\ UNCHANGED rx_count
    /\ UNCHANGED <<regVars, pollVars, wsVars, mainVars>>

\* Line 71: the back-off sleep is over; the loop starts again.
FanBackoffWake ==
    /\ fan_pc = "backoff"
    /\ fan_pc' = "check"
    /\ sleep_secs' = 0
    /\ UNCHANGED <<attempt, received_any, rx_count, consec_fail, recovered_from, fan_log>>
    /\ UNCHANGED <<regVars, pollVars, wsVars, mainVars>>

\* router.rs: a WebSocket handler starts: app.events_tx.subscribe()
Attach ==
    /\ rx_count < MaxSubscribers
    /\ rx_count' = rx_count + 1
    /\ UNCHANGED <<fan_pc, attempt, received_any, sleep_secs, consec_fail, recovered_from, fan_log>>
    /\ UNCHANGED <<regVars, pollVars, wsVars, mainVars>>

\* router.rs: a WebSocket handler's loop ends and its receiver is dropped
Detach ==
    /\ rx_count > 0
    /\ rx_count' = rx_count - 1
    /\ UNCHANGED <<fan_pc, attempt, received_any, sleep_secs, consec_fail, recovered_from, fan_log>>
    /\ UNCHANGED <<regVars, pollVars, wsVars, mainVars>>

NextFanout ==
    \/ FanCheck \/ FanIdleWake \/ FanSubscribe \/ FanNext \/ FanSendFailed
    \/ FanBackoffWake \/ Attach \/ Detach

SpecFanout == Init /\ [][NextFanout]_vars

\* The fan-out task with the runtime running it: a task that can go on does,
\* and its sleeps end.  Nothing is assumed of the daemon's stream or of the
\* clients.
SpecFanoutFair ==
    /\ SpecFanout
    /\ WF_vars(FanCheck)
    /\ WF_vars(FanIdleWake)
    /\ WF_vars(FanSubscribe)
    /\ WF_vars(FanSendFailed)
    /\ WF_vars(FanBackoffWake)

(* ----------------- the broadcast channel and router.rs ----------------- *)

\* The position of the oldest value the ring buffer still holds.
oldest(ch) == IF Len(ch) > Capacity THEN Len(ch) - Capacity + 1 ELSE 1

\* A sender that waits while some receiver has a full buffer of unread values.
send_ready_when_room(ch, w) ==
    \A h \in Conns : w[h].pc \in {"recv", "send"} => Len(ch) - w[h].next + 1 < Capacity

\* events.rs line 44: tx.send(js) is a plain call, not awaited: it returns
\* at once whatever the receivers have read.
send_ready(ch, w) == TRUE

\* tx.send(js): with a receiver the value takes the next slot (overwriting
\* the oldest when the buffer is full), with none it is handed back in Err.
tx_send(ch, ev, count) == IF count > 0 THEN Append(ch, ev) ELSE ch

\* The position that stays where it is.
recv_next_stuck(n) == n

\* rx.recv() returning Ok moves the receiver on by one.
recv_next(n) == n + 1

\* Lines 38-62 of events.rs with the content of the channel followed: an
\* event from the daemon's stream is numbered by its arrival.
FanNextOn(msg) ==
    /\ FanNextMsg(msg)
    /\ IF msg \in {"event", "unserializable"}
       THEN /\ upstream < MaxEvents
            /\ upstream' = upstream + 1
            /\ IF msg = "event"
               THEN /\ send_ready(chan, ws)
                    /\ chan' = tx_send(chan, upstream + 1, rx_count)
               ELSE UNCHANGED chan
       ELSE UNCHANGED <<upstream, chan>>
    /\ UNCHANGED ws

\* While the content of the channel is followed the daemon's stream stays
\* up: every item is an event.
LiveItems == {"event", "unserializable"}

FanPublish == \E msg \in LiveItems : FanNextOn(msg)

\* router.rs line 63: the connection is upgraded and the handler subscribes;
\* the receiver starts after the newest value.
WsSubscribe(h) ==
    /\ ws[h].pc = "none"
    /\ ws' = [ws EXCEPT ![h] =
                Handler("recv", Len(chan) + 1, Len(chan) + 1, << >>, FALSE, TRUE, 0)]
    /\ rx_count' = rx_count + 1
    /\ UNCHANGED <<fan_pc, attempt, received_any, sleep_secs, consec_fail, recovered_from, fan_log>>
    /\ UNCHANGED <<upstream, chan>>
    /\ UNCHANGED <<regVars, pollVars, mainVars>>

\* router.rs line 64: rx.recv().await resolves (it waits while nothing is
\* unread).  A receiver whose next value was overwritten gets Err(Lagged):
\* `while let Ok(ev)` does not match, the loop and the future end, and rx
\* and the socket are dropped.  Otherwise it gets Ok(ev) and goes to send.
WsRecv(h) ==
    /\ ws[h].pc = "recv"
    /\ ws[h].next <= Len(chan)
    /\ IF ws[h].next < oldest(chan)
       THEN /\ ws' = [ws EXCEPT ![h].pc = "done", ![h].lagged = TRUE,
                                ![h].next = oldest(chan)]
            /\ rx_count' = rx_count - 1
       ELSE /\ ws' = [ws EXCEPT ![h].pc = "send",
                                ![h].got = Append(@, chan[ws[h].next]),
                                ![h].next = recv_next(@)]
            /\ UNCHANGED rx_count
    /\ UNCHANGED <<fan_pc, attempt, received_any, sleep_secs, consec_fail, recovered_from, fan_log>>
    /\ UNCHANGED <<upstream, chan>>
    /\ UNCHANGED <<regVars, pollVars, mainVars>>

\* router.rs line 66: socket.send(..).await resolves, with Err when the
\* client is gone; `let _ =` drops the result and the loop goes on.
WsSend(h) ==
    /\ ws[h].pc = "send"
    /\ ws' = [ws EXCEPT ![h].pc = "recv",
                        ![h].failed = IF ws[h].open THEN @ ELSE @ + 1]
    /\ UNCHANGED <<fanVars, upstream, chan>>
    /\ UNCHANGED <<regVars, pollVars, mainVars>>

\* The client of a connection disconnects.
WsClientClose(h) ==
    /\ ws[h].pc \in {"recv", "send"}
    /\ ws[h].open
    /\ ws' = [ws EXCEPT ![h].open = FALSE]
    /\ UNCHANGED <<fanVars, upstream, chan>>
    /\ UNCHANGED <<regVars, pollVars, mainVars>>

NextEvents ==
    \/ FanCheck \/ FanIdleWake \/ FanSubscribe \/ FanPublish \/ FanSendFailed
    \/ FanBackoffWake
    \/ \E h \in Conns : WsSubscribe(h)
    \/ \E h \in Conns : WsRecv(h)
    \/ \E h \in Conns : WsSend(h)
    \/ \E h \in Conns : WsClientClose(h)

SpecEvents == Init /\ [][NextEvents]_vars

(* ------------------------ registry: properties ------------------------ *)

\* Indices of the samples of h whose age at the current instant is <= w.
InWindow(h, w) == {i \in 1..Len(h) : now - h[i][1] <= w}

RECURSIVE SumOver(_, _)
SumOver(h, S) ==
    IF S = {} THEN F64(0, 1)
    ELSE LET i == CHOOSE x \in S : TRUE
         IN  F64Add(h[i][2], SumOver(h, S \ {i}))

\* The arithmetic mean of the samples of h in the window, or no data.
MeanOf(h, w) ==
    LET S == InWindow(h, w)
    IN  IF S = {} THEN None ELSE Some(F64DivN(SumOver(h, S), Cardinality(S)))

\* The greatest defined value of the samples of h in the window, or no data.
MaxOf(h, w) ==
    LET S == {i \in InWindow(h, w) : ~is_nan(h[i][2])}
    IN  IF S = {} THEN None
        ELSE Some(h[CHOOSE i \in S : \A j \in S : ~F64Lt(h[i][2], h[j][2])][2])

\* The indices of q that the backward scan of avg visits before it stops.
Considered(q, w) == (Len(q) - avg_scan(q, w)[2] + 1)..Len(q)

Stores == <<cpu, mem>>

\* C1: in every window of either store, no retained sample is more than
\* 60 s older than the insertion time of the latest record on that key
\* (the timestamp of the window's tail).
C1_Retention ==
    \A s \in 1..2 : \A id \in DOMAIN Stores[s] :
        LET q == Stores[s][id]
        IN  \A i \in 1..Len(q) : q[Len(q)][1] - q[i][1] <= MAX_WINDOW

\* A record has evicted two expired samples at once.
C1_Witness ==
    \E id \in DOMAIN cpu : Len(hist_cpu[id]) - Len(cpu[id]) >= 2

\* C2: for w <= 60 s, cpu_avg(id, w) is no data when id was never recorded
\* or no recorded sample has age <= w, and otherwise the arithmetic mean of
\* exactly the samples ever recorded for id whose age is <= w.
C2_CpuAvg ==
    \A id \in Ids : \A w \in Windows :
        w <= MAX_WINDOW =>
            /\ cpu_avg(id, w) = MeanOf(hist_cpu[id], w)
            /\ (hist_cpu[id] = << >> => cpu_avg(id, w) = None)

\* cpu_avg returned the mean of two samples and left an older one out.
C2_Witness ==
    \E id \in Ids : \E w \in Windows :
        /\ w <= MAX_WINDOW
        /\ Cardinality(InWindow(hist_cpu[id], w)) = 2
        /\ Len(hist_cpu[id]) = 3
        /\ hist_cpu[id][2][2] # hist_cpu[id][3][2]
        /\ cpu_avg(id, w) # None
        /\ ~is_nan(cpu_avg(id, w)[1])

\* C3: the samples the scan of avg considers grow with the window.  The scan
\* visits the last n samples of the deque, so for w1 <= w2 those considered
\* with w1 are considered with w2 exactly when the count n does not
\* decrease; and every considered sample has age <= w.
C3_Monotone ==
    \A s \in 1..2 : \A id \in DOMAIN Stores[s] :
        LET q == Stores[s][id]
            n == [w \in Windows |-> avg_scan(q, w)[2]]
        IN  /\ \A w \in Windows :
                \A i \in (Len(q) - n[w] + 1)..Len(q) : now - q[i][1] <= w
            /\ \A w1 \in Windows : \A w2 \in Windows :
                    w1 <= w2 => n[w1] <= n[w2]

\* A wider window considers strictly more samples, and still not all.
C3_Witness ==
    \E id \in DOMAIN cpu : \E w1 \in Windows : \E w2 \in Windows :
        /\ w1 < w2
        /\ Considered(cpu[id], w1) # {}
        /\ Considered(cpu[id], w1) # Considered(cpu[id], w2)
        /\ Cardinality(Considered(cpu[id], w2)) < Len(cpu[id])

\* C4: mem_max(id, w) is the greatest value among the samples of id whose
\* age is <= w, and no data exactly when id is unknown or the window holds
\* no defined sample; the scan of max skips NaN values in whichever store
\* it is applied to.  For w <= 60 s the retained samples in the window are
\* all the samples ever recorded in it.
C4_MemMax ==
    /\ \A id \in Ids : \A w \in Windows :
        LET r == mem_max(id, w)
            e == IF id \in DOMAIN mem THEN MaxOf(mem[id], w) ELSE None
        IN  /\ (r = None) = (e = None)
            /\ r # None => U64AsF64(r[1]) = e[1]
            /\ w <= MAX_WINDOW => e = MaxOf(hist_mem[id], w)
    /\ \A id \in DOMAIN cpu : \A w \in Windows :
        max(cpu, id, w) = MaxOf(cpu[id], w)

\* mem_max returned a maximum that is not the newest sample, with an older
\* sample outside the window.
C4_Witness ==
    \E id \in DOMAIN mem : \E w \in Windows :
        /\ Len(mem[id]) = 3
        /\ Cardinality(InWindow(mem[id], w)) = 2
        /\ mem_max(id, w) # None
        /\ U64AsF64(mem_max(id, w)[1]) # mem[id][3][2]

\* C30: a store has an entry for an id exactly when a sample was recorded
\* for that id in that store; an entry is never an empty window; and no
\* step takes a key out of a store, whatever the age of its samples.
C30_KeysOnlyGrow ==
    /\ [](\A id \in Ids :
            /\ (id \in DOMAIN cpu) = (hist_cpu[id] # << >>)
            /\ (id \in DOMAIN mem) = (hist_mem[id] # << >>))
    /\ [](\A s \in 1..2 : \A id \in DOMAIN Stores[s] : Stores[s][id] # << >>)
    /\ [][DOMAIN cpu \subseteq DOMAIN cpu' /\ DOMAIN mem \subseteq DOMAIN mem']_vars

\* A container whose samples are all older than 60 s still has its entry,
\* with those samples in it, after a sample was recorded for another
\* container just now.
C30_Witness ==
    \E id \in DOMAIN cpu : \E other \in DOMAIN cpu \ {id} :
        /\ \A i \in 1..Len(cpu[id]) : now - cpu[id][i][1] > MAX_WINDOW
        /\ cpu[other][Len(cpu[other])][1] = now

\* p is the window q after one record at the current instant: q with one
\* sample stamped now appended at the tail and k samples taken off the
\* head, each of them older than 60 s.
WindowStep(q, p) ==
    /\ p # << >>
    /\ p[Len(p)][1] = now
    /\ \E k \in 0..Len(q) :
            /\ p = SubSeq(Append(q, p[Len(p)]), k + 1, Len(q) + 1)
            /\ \A i \in 1..k : now - q[i][1] > MAX_WINDOW

\* new is the store old after one record for id: the entry of id is there,
\* every other entry is as it was.
StoreFrame(old, new, id) ==
    /\ DOMAIN new = DOMAIN old \cup {id}
    /\ \A k \in DOMAIN old \ {id} : new[k] = old[k]
    /\ WindowStep(IF id \in DOMAIN old THEN old[id] ELSE << >>, new[id])

\* C31: a call of cpu_avg or mem_max leaves both stores as they are; a step
\* that changes a store is one record for one id: it changes one store, in
\* it only the window of that id, and that window by one append at the tail
\* and the removal from the head of samples older than 60 s, so the samples
\* within the horizon stay, in their order and with their values.
C31_Frame ==
    /\ [][(CpuAvg \/ MemMax) => UNCHANGED <<cpu, mem, hist_cpu, hist_mem>>]_vars
    /\ [][\A id \in Ids : \A v \in CpuValues :
            record_cpu(id, v) => (mem' = mem /\ StoreFrame(cpu, cpu', id))]_vars
    /\ [][\A id \in Ids : \A b \in MemValues :
            record_mem(id, b) => (cpu' = cpu /\ StoreFrame(mem, mem', id))]_vars
    /\ [][\/ UNCHANGED <<cpu, mem>>
          \/ \E id \in Ids : mem' = mem /\ StoreFrame(cpu, cpu', id)
          \/ \E id \in Ids : cpu' = cpu /\ StoreFrame(mem, mem', id)]_vars

\* A record has just taken an expired sample off the head of a window and
\* kept the sample of age 60 s behind it.
C31_Witness ==
    \E id \in DOMAIN cpu :
        /\ Len(hist_cpu[id]) = 3
        /\ Len(cpu[id]) = 2
        /\ cpu[id][2][1] = now
        /\ now - cpu[id][1][1] = MAX_WINDOW

\* The last n samples of h.
LastN(h, n) == SubSeq(h, Len(h) - n + 1, Len(h))

\* C32: every window present in either store is non-empty and its samples
\* are in non-decreasing timestamp order from head to tail; its tail is the
\* sample pushed last for that id, so that an insertion never evicts its
\* own sample; and the window is a suffix of all the samples ever pushed
\* for that id, so that eviction removes only a prefix.
C32_Ordered ==
    LET hist == <<hist_cpu, hist_mem>>
    IN  \A s \in 1..2 : \A id \in DOMAIN Stores[s] :
            LET q == Stores[s][id]
                h == hist[s][id]
            IN  /\ q # << >>
                /\ \A i \in 1..Len(q) : \A j \in i..Len(q) : q[i][1] <= q[j][1]
                /\ Len(q) <= Len(h)
                /\ q[Len(q)] = h[Len(h)]
                /\ q = LastN(h, Len(q))

\* Of three samples pushed for a container at three instants the memory
\* window holds the last two, the newest at the tail: the record just made
\* took the oldest off the head.
C32_Witness ==
    \E id \in DOMAIN mem :
        /\ Len(hist_mem[id]) = 3
        /\ Len(mem[id]) = 2
        /\ hist_mem[id][1][1] < mem[id][1][1]
        /\ mem[id][1][1] < mem[id][2][1]
        /\ mem[id][2][1] = now

(* ------------------------- poller: properties ------------------------- *)

\* The last sample pushed into the CPU window of id.
LastCpu(id) == hist_cpu[id][Len(hist_cpu[id])]

StalledPoll(id) ==
    /\ id \in DOMAIN cpu_snapshots
    /\ cpu_snapshots'[id] # cpu_snapshots[id]
    /\ \/ saturating_sub(cpu_snapshots'[id].system_usage,
                         cpu_snapshots[id].system_usage) = 0
       \/ saturating_sub(cpu_snapshots'[id].total_usage,
                         cpu_snapshots[id].total_usage) = 0

SecondReply == StatsReply("ok", TRUE, TRUE, Some(10800), Some(1800), Some(2), TRUE, Some(100))

\* C7: in the second poll cycle since start, the response (1800, 10800) with
\* 2 cores for a container whose first-cycle snapshot is (1000, 10000)
\* makes cpu_avg over 60 s equal to (800 / 800) * 2 = 2.0.
C7_EndToEnd ==
    [][\A id \in Ids :
        (/\ cycles = 2
         /\ id \in DOMAIN cpu_snapshots
         /\ cpu_snapshots[id] = CpuSnapshot(1000, 10000)
         /\ PollStatsFor(id, SecondReply))
            => cpu_avg(id, 60)' = Some(F64(2, 1))]_vars

\* After two cycles the container has the snapshot (1800, 10800), one CPU
\* sample, and an average of 2.0 over 60 s.
C7_Witness ==
    \E id \in Ids :
        /\ cycles = 2
        /\ id \in DOMAIN cpu_snapshots
        /\ cpu_snapshots[id] = CpuSnapshot(1800, 10800)
        /\ Len(hist_cpu[id]) = 1
        /\ Len(hist_mem[id]) = 2
        /\ cpu_avg(id, 60) = Some(F64(2, 1))

HasCounters(r) ==
    /\ r.kind = "ok" /\ r.cpu_stats /\ r.cpu_usage
    /\ r.system_cpu_usage # None /\ r.total_usage # None

\* C22: the step that takes in a stats response carrying both counters
\* leaves the stored snapshot of that container equal to the pair of the
\* response, whether or not a fraction was computed and whether or not the
\* response tells the number of cores.
C22_AsStated ==
    [][\A id \in Ids : \A r \in StatsReplies :
        (PollStatsFor(id, r) /\ HasCounters(r))
            => /\ id \in DOMAIN cpu_snapshots'
               /\ cpu_snapshots'[id] =
                    CpuSnapshot(r.total_usage[1], r.system_cpu_usage[1])]_vars

\* C23: the step that takes in a stats response Some(Ok(s)) pushes one
\* memory sample for that container, stamped now: the usage the response
\* reports, or 0 when it reports none, whatever CPU fields it carries.
C23_AsStated ==
    [][\A id \in Ids : \A r \in StatsReplies :
        (PollStatsFor(id, r) /\ r.kind = "ok")
            => /\ Len(hist_mem'[id]) = Len(hist_mem[id]) + 1
               /\ hist_mem'[id][Len(hist_mem'[id])] =
                    <<now, U64AsF64(IF r.memory_stats /\ r.usage # None
                                    THEN r.usage[1] ELSE 0)>>]_vars

\* The response carries both counters and does not tell the number of
\* cores: the per-core list is absent, or empty.
NoCoreCount(r) ==
    HasCounters(r) /\ (r.percpu_usage = None \/ r.percpu_usage = Some(0))

\* C24: the step that takes in a response without a core count processes
\* the container with cores = 1: the snapshot becomes the pair of the
\* response, the memory usage it reports is recorded, and with a stored
\* snapshot and both deltas positive the CPU sample cpu_delta / sys_delta
\* is recorded.
C24_AsStated ==
    [][\A id \in Ids : \A r \in StatsReplies :
        (PollStatsFor(id, r) /\ NoCoreCount(r))
            => /\ id \in DOMAIN cpu_snapshots'
               /\ cpu_snapshots'[id] =
                    CpuSnapshot(r.total_usage[1], r.system_cpu_usage[1])
               /\ (r.memory_stats /\ r.usage # None)
                    => Len(hist_mem'[id]) = Len(hist_mem[id]) + 1
               /\ (/\ id \in DOMAIN cpu_snapshots
                   /\ r.total_usage[1] > cpu_snapshots[id].total_usage
                   /\ r.system_cpu_usage[1] > cpu_snapshots[id].system_usage)
                    => /\ Len(hist_cpu'[id]) = Len(hist_cpu[id]) + 1
                       /\ LastCpu(id)'[2] =
                            F64(r.total_usage[1] - cpu_snapshots[id].total_usage,
                                r.system_cpu_usage[1] - cpu_snapshots[id].system_usage)]_vars

\* v is a number greater than zero.
Positive(v) == ~is_nan(v) /\ v # Inf /\ F64Lt(F64(0, 1), v)

\* C33: every CPU sample the poller ever recorded is strictly positive, and
\* so is cpu_avg of any container over any window when it is not no data;
\* a step of the poller that records a CPU sample for id finds a snapshot
\* of id and leaves one whose two counters are both greater than those it
\* found.
C33_PositiveSamples ==
    /\ [](\A id \in Ids : \A i \in 1..Len(hist_cpu[id]) : Positive(hist_cpu[id][i][2]))
    /\ [](\A id \in Ids : \A w \in Windows :
            cpu_avg(id, w) # None => Positive(cpu_avg(id, w)[1]))
    /\ [][\A id \in Ids :
            hist_cpu'[id] # hist_cpu[id] =>
                /\ id \in DOMAIN cpu_snapshots
                /\ cpu_snapshots'[id].total_usage > cpu_snapshots[id].total_usage
                /\ cpu_snapshots'[id].system_usage > cpu_snapshots[id].system_usage]_vars

\* After two cycles, each with complete responses for c1 and c2: the
\* counters of c1 advanced and it has one positive sample; the CPU counter
\* of c2 stood still and it has a snapshot, two memory samples and no CPU
\* sample.
C33_Witness ==
    /\ cycles = 2
    /\ poll_pc = "sleep"
    /\ Len(hist_cpu["c1"]) = 1
    /\ Positive(hist_cpu["c1"][1][2])
    /\ cpu_avg("c1", 0) = Some(hist_cpu["c1"][1][2])
    /\ "c2" \in DOMAIN cpu_snapshots
    /\ Len(hist_mem["c2"]) = 2
    /\ hist_cpu["c2"] = << >>

\* C34: every id with a CPU window has a snapshot; a snapshot, once stored,
\* is never removed; a step that records a CPU sample for id finds a
\* snapshot of id already there; and after n cycles an id has at most
\* n - 1 CPU samples, the first successful poll of an id giving none.
C34_CpuNeedsSnapshot ==
    /\ [](DOMAIN cpu \subseteq DOMAIN cpu_snapshots)
    /\ [](\A id \in Ids : hist_cpu[id] # << >> => Len(hist_cpu[id]) <= cycles - 1)
    /\ [][DOMAIN cpu_snapshots \subseteq DOMAIN cpu_snapshots']_vars
    /\ [][\A id \in Ids :
            hist_cpu'[id] # hist_cpu[id] =>
                (id \in DOMAIN cpu_snapshots /\ cycles >= 2)]_vars

\* c1 was polled in both cycles and has its one CPU window; c2 was polled
\* with success in one cycle only and has a snapshot and no CPU window.
C34_Witness ==
    /\ cycles = 2
    /\ poll_pc = "sleep"
    /\ DOMAIN cpu = {"c1"}
    /\ Len(hist_cpu["c1"]) = 1
    /\ DOMAIN cpu_snapshots = Ids
    /\ Len(hist_mem["c1"]) = 2
    /\ Len(hist_mem["c2"]) = 1
    /\ hist_mem["c2"][1][1] > 0

\* C29: at most one stats request is in flight and at most one cycle is
\* alive; a request is in flight exactly while the task awaits a stats
\* response; between cycles (before the start and in the interval sleep)
\* nothing is in flight and no cycle is alive, so a cycle starts only after
\* the one before has returned or was dropped; and the registry and the
\* snapshots are written only by a step of the one cycle alive.
C29_OneAtATime ==
    /\ [](body.inflight <= 1 /\ body.alive <= 1)
    /\ [](body.inflight = 1 <=> poll_pc = "stats_wait")
    /\ [](poll_pc \in {"start", "sleep"} => (body.inflight = 0 /\ body.alive = 0))
    /\ [][PollStart => (body.alive = 0 /\ body'.alive = 1)]_vars
    /\ [][(cpu' # cpu \/ mem' # mem \/ cpu_snapshots' # cpu_snapshots) =>
            (body.alive = 1 /\ body.inflight = 1 /\ poll_pc = "stats_wait")]_vars

\* The first cycle was dropped by the timeout with a request unanswered;
\* the second cycle has its request for the second container in flight.
C29_Witness ==
    /\ cycles = 2
    /\ cycle_log.hung # {}
    /\ poll_pc = "stats_wait"
    /\ Len(containers) = 1
    /\ cycle_log.listed = Ids
    /\ body.inflight = 1
    /\ body.alive = 1

\* C35: metrics_handler writes lines only for ids of the CPU store: every
\* output it makes is for an id with a CPU window, and no step of it writes
\* a memory line, or any line, for an id that has none, whatever memory
\* samples that id has.
C35_OnlyCpuKeys ==
    /\ [](scrape.id # "" => scrape.id \in DOMAIN cpu)
    /\ [][MetricsHandler => scrape'.id \in DOMAIN cpu]_vars
    /\ [][\A id \in DOMAIN mem \ DOMAIN cpu :
            scrape' # scrape => scrape'.id # id]_vars

\* The handler has written both lines of c1 while c2, polled with success
\* and with a memory sample inside the 10 s window, has no CPU window: no
\* run of the handler at this moment writes a line for c2.
C35_Witness ==
    /\ scrape.id = "c1"
    /\ scrape.cpu # None
    /\ scrape.mem # None
    /\ "c2" \in DOMAIN mem \ DOMAIN cpu
    /\ "c2" \in DOMAIN cpu_snapshots
    /\ mem_max("c2", SCRAPE_WINDOW) # None

\* C27: metrics_handler never puts out the CPU line of a container
\* without its memory line, when every response the poller got for the
\* container carried both: the CPU sample and the memory sample of a
\* cycle become visible together.
C27_AsStated ==
    (scrape.id \in Ids \ cycle_log.bad /\ scrape.cpu # None) => scrape.mem # None

\* A suspension point of the poller task: the wait for list_containers,
\* for a stats response or for the write lock, and the interval sleep.
Suspended ==
    \/ poll_pc \in {"list_wait", "sleep"}
    \/ poll_pc = "stats_wait" /\ body.pc \in {"await", "lock_wait"}

\* C28: the poller task holds no lock and no guard at a suspension point;
\* the step that drops the cycle at its timeout finds none held; time
\* passes only while the task is suspended; the write guard of the
\* snapshots is held exactly from line 51 to the end of the match arm;
\* and an entry guard of the registry is held only inside record_cpu or
\* record_mem, under that write guard.
C28_NoLockAcrossAwait ==
    /\ [](Suspended => body.held = {})
    /\ [][PollTimeout => body.held = {}]_vars
    /\ [][now' # now => (Suspended /\ body.held = {})]_vars
    /\ []("cpu_snapshots" \in body.held
            <=> body.pc \in {"locked", "cpu_guard", "snap", "mem_guard", "end"})
    /\ []("cpu" \in body.held <=> body.pc = "cpu_guard")
    /\ []("mem" \in body.held <=> body.pc = "mem_guard")

\* The task awaits the stats of the second container of the list, with
\* the samples of the first one written in this cycle and nothing held.
C28_Witness ==
    /\ poll_pc = "stats_wait"
    /\ body.pc = "await"
    /\ body.held = {}
    /\ containers = <<"c2">>
    /\ cycles = 2
    /\ "c1" \in DOMAIN cpu
    /\ "c1" \in DOMAIN mem
    /\ Len(hist_mem["c1"]) = 2

\* The task is inside the loop body between the write lock and the end of
\* the match arm (lines 53-84), where nothing is awaited.
InBody == body.pc \in {"locked", "cpu_guard", "snap", "mem_guard", "end"}

\* A step writes to the registry or to the snapshots.
Writes ==
    \/ cpu' # cpu \/ mem' # mem \/ cpu_snapshots' # cpu_snapshots
    \/ hist_cpu' # hist_cpu \/ hist_mem' # hist_mem

\* No sample of id was recorded since the request now awaited was made.
NoneYet(id) ==
    /\ \A i \in 1..Len(hist_cpu[id]) : hist_cpu[id][i][1] < cycle_log.since
    /\ \A i \in 1..Len(hist_mem[id]) : hist_mem[id][i][1] < cycle_log.since

\* C38: the timeout drops the cycle only while the task is at an await (of
\* the list, of a stats response, of the write lock) and changes nothing
\* in the registry or the snapshots; every write is made inside the loop
\* body and leaves the task inside it, where the timeout cannot act; at
\* every await of the loop nothing is written yet for the container at
\* hand; and once the body is through, all that the response calls for is
\* written: the CPU sample when one is due, the snapshot, and the memory
\* sample when the usage is present.
C38_AllOrNothing ==
    /\ [][PollTimeout =>
            /\ ~InBody /\ body.held = {}
            /\ UNCHANGED <<cpu, mem, hist_cpu, hist_mem, cpu_snapshots>>]_vars
    /\ [](InBody => ~ENABLED PollTimeout)
    /\ [][Writes => (InBody /\ InBody')]_vars
    /\ []((poll_pc = "stats_wait" /\ ~InBody) => NoneYet(Head(containers)))
    /\ [][BodySnapshot =>
            LET id == Head(containers)
            IN  (/\ id \in DOMAIN cpu_snapshots
                 /\ reply_total > cpu_snapshots[id].total_usage
                 /\ reply_sys > cpu_snapshots[id].system_usage)
                    => (hist_cpu[id] # << >> /\ LastCpu(id)[1] = now)]_vars
    /\ [][BodyEnd =>
            LET id == Head(containers)
                h == hist_mem[id]
            IN  /\ id \in DOMAIN cpu_snapshots
                /\ cpu_snapshots[id] = CpuSnapshot(reply_total, reply_sys)
                /\ (body.reply.memory_stats /\ body.reply.usage # None)
                        => (h # << >> /\
                            h[Len(h)] = <<now, U64AsF64(body.reply.usage[1])>>)]_vars

\* Both cycles were dropped by the timeout while they awaited the stats of
\* c2: c1, processed before in each, has the CPU and memory samples of the
\* second cycle, recorded at one instant, and c2 has nothing of it.
C38_Witness ==
    /\ cycles = 2
    /\ poll_pc = "sleep"
    /\ body.pc = "none"
    /\ cycle_log.hung = {"c2"}
    /\ Len(hist_cpu["c1"]) = 1
    /\ Len(hist_mem["c1"]) = 2
    /\ hist_mem["c1"][2][1] = hist_cpu["c1"][1][1]
    /\ hist_cpu["c2"] = << >>
    /\ \A i \in 1..Len(hist_mem["c2"]) : hist_mem["c2"][i][1] < hist_mem["c1"][2][1]

\* C15: a cycle never awaits past its 30 s deadline; the step that abandons
\* it writes nothing and starts the 5 s sleep; and whatever the daemon does
\* or fails to do, every cycle is followed by the start of the next one.
C15_NextCycleStarts ==
    /\ [](poll_pc \in {"list_wait", "stats_wait"} => now <= timer)
    /\ [][PollTimeout =>
            /\ now = timer
            /\ poll_pc' = "sleep" /\ timer' = now + POLL_INTERVAL
            /\ UNCHANGED <<cpu, mem, cpu_snapshots>>]_vars
    /\ [][(poll_pc = "sleep" /\ poll_pc' = "start") => now = timer]_vars
    /\ \A k \in 1..(MaxCycles - 1) : (cycles = k) ~> (cycles = k + 1)

\* The first cycle was abandoned after 30 s on a stats request, and the
\* second has started 5 s later.
C15_Witness ==
    /\ cycles = 2
    /\ poll_pc = "list_wait"
    /\ now = CYCLE_TIMEOUT + POLL_INTERVAL
    /\ cycle_log.hung # {}

\* C16: when the stats request of one container h has hung in every cycle,
\* every other container that was listed in every cycle, and none of whose
\* stats requests failed, has a sample once the cycles are over, whatever
\* its place in the list.
C16_AsStated ==
    \A h \in Ids : \A id \in Ids \ {h} :
        (/\ cycles = MaxCycles /\ poll_pc = "sleep"
         /\ h \in cycle_log.hung
         /\ id \in cycle_log.listed \ cycle_log.bad)
            => (hist_cpu[id] # << >> \/ hist_mem[id] # << >>)

\* C17: the step in which list_containers fails leaves the registry and the
\* snapshots as they were, awaits no stats request, and goes straight to
\* the interval sleep; from the sleep the task goes nowhere but to the
\* start of the next cycle, and not before the 5 s are over.
C17_ListFailureSkips ==
    /\ [][PollListWith(ListFailed) =>
            /\ UNCHANGED <<cpu, mem, hist_cpu, hist_mem, cpu_snapshots>>
            /\ poll_pc' = "sleep" /\ containers' = << >>
            /\ timer' = now + POLL_INTERVAL]_vars
    /\ [][(poll_pc = "sleep" /\ poll_pc' # "sleep") =>
            (poll_pc' = "start" /\ now >= timer)]_vars
    /\ [](poll_pc = "start" /\ cycles < MaxCycles => ENABLED PollStart)

\* The second cycle failed to list: the snapshot of the first cycle is
\* still there and the task sleeps for the interval.
C17_Witness ==
    /\ cycles = 2
    /\ cycle_log.list_ok = "err"
    /\ poll_pc = "sleep"
    /\ timer = now + POLL_INTERVAL
    /\ cpu_snapshots # << >>
    /\ Recorded > 0

\* The complete responses: those with every field the loop body reads.
AnsweringReplies == {r \in FullReplies : answers(r)}

\* Some(Err(e)) and None.
FailedReplies ==
    {StatsReply("err", FALSE, FALSE, None, None, None, FALSE, None),
     StatsReply("none", FALSE, FALSE, None, None, None, FALSE, None)}

\* C18: the step in which the stats of a container fail or come back empty
\* leaves the registry and every snapshot as they were and goes on to the
\* next container of the list within the same deadline (or ends the cycle
\* after the last); and a complete response is recorded whatever happened
\* to the containers before it: the snapshot is replaced and a memory
\* sample is pushed.
C18_SkipsOnlyThatContainer ==
    /\ [][(poll_pc = "stats_wait" /\ body.pc = "await" /\ containers # << >>) =>
            LET id == Head(containers)
            IN  \A r \in FailedReplies :
                    PollStatsFor(id, r) =>
                        /\ UNCHANGED <<cpu, mem, hist_cpu, hist_mem, cpu_snapshots>>
                        /\ IF Tail(containers) # << >>
                           THEN /\ poll_pc' = "stats_wait"
                                /\ containers' = Tail(containers)
                                /\ timer' = timer
                           ELSE poll_pc' = "sleep"]_vars
    /\ [][(poll_pc = "stats_wait" /\ body.pc = "await" /\ containers # << >>) =>
            LET id == Head(containers)
            IN  \A r \in AnsweringReplies :
                    PollStatsFor(id, r) =>
                        /\ id \in DOMAIN cpu_snapshots'
                        /\ cpu_snapshots'[id] =
                                CpuSnapshot(r.total_usage[1], r.system_cpu_usage[1])
                        /\ Len(hist_mem'[id]) = Len(hist_mem[id]) + 1]_vars

\* In the first cycle the stats of c1 failed at 0 s, the request for c2 was
\* made then and answered at 30 s: c2 has a snapshot and a sample, c1 none.
C18_Witness ==
    /\ cycles = 1
    /\ poll_pc = "sleep"
    /\ cycle_log.bad = {"c1"}
    /\ cycle_log.since = 0
    /\ "c1" \notin DOMAIN cpu_snapshots
    /\ "c2" \in DOMAIN cpu_snapshots
    /\ Len(hist_mem["c2"]) = 1
    /\ hist_mem["c2"][1][1] = CYCLE_TIMEOUT

(* ------------------------- fan-out: properties ------------------------ *)

\* The step in which the task calls docker.events (line 35).
EventsCall == fan_pc = "subscribe" /\ fan_pc' = "stream"

\* C8 as stated: every call of docker.events happens at a moment when at
\* least one receiver is attached.
C8_AsStated == [][EventsCall => rx_count > 0]_vars

\* C8, amended: every call of docker.events is made in a loop iteration
\* whose receiver_count() check found at least one receiver, and an
\* iteration whose check finds none sleeps a second and calls nothing (a
\* receiver may detach between the check and the call).
C8_CheckedBeforeCall ==
    [][/\ (fan_pc = "check" /\ rx_count = 0 /\ fan_pc' # "check")
            => (fan_pc' = "idle_sleep" /\ attempt' = attempt)
       /\ (fan_pc # "subscribe" /\ fan_pc' = "subscribe")
            => (fan_pc = "check" /\ rx_count > 0)
       /\ attempt' = attempt + 1 => EventsCall
       /\ fan_pc = "idle_sleep" => fan_pc' \in {"idle_sleep", "check"}]_vars

\* After a subscription that failed, the receivers are gone and the task
\* is parked in its one-second sleep.
C8_Witness ==
    /\ fan_pc = "idle_sleep"
    /\ rx_count = 0
    /\ consec_fail >= 1
    /\ sleep_secs = 1

\* C9: in the back-off that follows k >= 1 consecutive subscriptions that
\* received no event, the task sleeps 2^min(k, 5) seconds: 2 s after the
\* first, 32 s after the fifth and after every later one.
C9_Backoff ==
    (fan_pc = "backoff" /\ consec_fail >= 1) =>
        /\ sleep_secs = 2 ^ (IF consec_fail < 5 THEN consec_fail ELSE 5)
        /\ consec_fail = 1 => sleep_secs = 2
        /\ consec_fail >= 5 => sleep_secs = 32

\* The seventh failure in a row is followed by a wait of 32 s.
C9_Witness ==
    /\ fan_pc = "backoff"
    /\ consec_fail = 7
    /\ sleep_secs = 32

\* C10: a subscription that received an event leaves the counter at 0 when
\* it ends, whatever it was; and the first failed subscription after it is
\* followed by a wait of 2 s.
C10_Reset ==
    [][/\ (fan_pc \in {"stream", "send_failed"} /\ fan_pc' = "backoff" /\ received_any)
            => attempt' = 0
       /\ (fan_pc' = "backoff" /\ consec_fail' = 1 /\ recovered_from' >= 0)
            => sleep_secs' = 2]_vars

\* Three failures, then a subscription with an event, then one failure:
\* the wait is 2 s, not 2^4 s.
C10_Witness ==
    /\ fan_pc = "backoff"
    /\ consec_fail = 1
    /\ recovered_from = 3
    /\ sleep_secs = 2

\* Where the task holds no subscription and is not about to make one: in a
\* sleep, or at the receiver check.
Parked == fan_pc \in {"backoff", "check", "idle_sleep"}

\* C25: the step after a send that failed with no receiver attached leaves
\* the stream for a sleep of 2^0 = 1 s with attempt = 0 and no failure
\* counted; while no receiver is attached the parked task stays parked and
\* attempt is not touched; and it leaves being parked only from a check that
\* found a receiver, towards the subscription.
C25_FallsBackToIdle ==
    /\ [][(fan_pc = "send_failed" /\ rx_count = 0 /\ fan_pc' # "send_failed") =>
            /\ fan_pc' = "backoff" /\ fan_log' = "all_gone"
            /\ attempt' = 0 /\ consec_fail' = 0
            /\ sleep_secs' = 2 ^ 0]_vars
    /\ [][(Parked /\ rx_count = 0 /\ rx_count' = 0) =>
            (Parked' /\ attempt' = attempt)]_vars
    /\ [][(Parked /\ ~Parked') =>
            (fan_pc = "check" /\ rx_count > 0 /\ fan_pc' = "subscribe")]_vars

\* After failed subscriptions and then one that brought an event nobody
\* was left to receive, the task sits in its one-second sleep with the
\* counter at 0.
C25_Witness ==
    /\ fan_pc = "idle_sleep"
    /\ fan_log = "all_gone"
    /\ rx_count = 0
    /\ attempt = 0
    /\ consec_fail = 0
    /\ recovered_from >= 2

\* C26: the step after a failed send that finds a receiver attached logs
\* the warning and is back at stream.next() of the same subscription
\* (attempt, the back-off state and received_any are as they were); and
\* an event that does not serialize is counted as received and leaves the
\* task at stream.next() of the same subscription.
C26_KeepsStreaming ==
    /\ [][(fan_pc = "send_failed" /\ rx_count > 0 /\ fan_pc' # "send_failed") =>
            /\ fan_pc' = "stream" /\ fan_log' = "undelivered"
            /\ received_any'
            /\ UNCHANGED <<attempt, sleep_secs, consec_fail, recovered_from>>]_vars
    /\ [][FanNextMsg("unserializable") =>
            /\ fan_pc' = "stream" /\ received_any'
            /\ UNCHANGED <<attempt, sleep_secs, consec_fail, recovered_from, fan_log>>]_vars

\* The task is streaming on its second subscription after the warning: a
\* send had failed and a receiver was attached when the count was read.
C26_Witness ==
    /\ fan_pc = "stream"
    /\ fan_log = "undelivered"
    /\ rx_count > 0
    /\ received_any
    /\ attempt = 2

\* The task holds a subscription: it awaits the stream or handles a send
\* that failed.
Subscribed == fan_pc \in {"stream", "send_failed"}

\* C36: every step that ends a subscription, the one taken because no
\* receiver is left included, puts the task into the back-off sleep, and
\* the receiver count is read again only after that sleep; the sleep lasts
\* 1 s when the subscription received an event, and 2^min(attempt, 5) s,
\* at least 2 s, when it received none, so always 2^k s with k in 0..5; and
\* the steps of the idle loop leave attempt as it is.
C36_BackoffAfterEveryExit ==
    /\ [][(Subscribed /\ ~Subscribed') =>
            /\ fan_pc' = "backoff"
            /\ received_any' = received_any
            /\ IF received_any
               THEN attempt' = 0 /\ sleep_secs' = 1
               ELSE /\ attempt' = attempt /\ attempt >= 1
                    /\ sleep_secs' = 2 ^ (IF attempt < 5 THEN attempt ELSE 5)
                    /\ sleep_secs' >= 2]_vars
    /\ [][(fan_pc = "send_failed" /\ rx_count = 0 /\ fan_pc' # fan_pc) =>
            (fan_pc' = "backoff" /\ sleep_secs' = 1)]_vars
    /\ [](fan_pc = "backoff" => \E k \in 0..5 : sleep_secs = 2 ^ k)
    /\ [][(fan_pc # "check" /\ fan_pc' = "check") =>
            (fan_pc \in {"backoff", "idle_sleep"} /\ sleep_secs >= 1)]_vars
    /\ [][(FanCheck \/ FanIdleWake \/ FanBackoffWake) => attempt' = attempt]_vars

\* The third subscription brought an event after two that brought none,
\* and ended because no receiver was left: the task is in a back-off of
\* 1 s with no receiver attached.
C36_Witness ==
    /\ fan_pc = "backoff"
    /\ fan_log = "all_gone"
    /\ received_any
    /\ rx_count = 0
    /\ sleep_secs = 1
    /\ recovered_from = 2

\* C37: while the task awaits the stream it has no step of its own: only an
\* item of the stream moves it.  It reads the receiver count only after an
\* event whose send failed, so with no receiver attached and a silent
\* stream every step leaves it at stream.next() with the subscription
\* open, and nothing the task does by itself brings it back to the check.
C37_NoticesOnlyOnSend ==
    /\ [](fan_pc = "stream" =>
            ~ENABLED (FanCheck \/ FanIdleWake \/ FanSubscribe \/ FanSendFailed
                        \/ FanBackoffWake))
    /\ [][(fan_pc = "stream" /\ fan_pc' # "stream") =>
            \E msg \in {"event", "error", "closed"} : FanNextMsg(msg)]_vars
    /\ [][(fan_pc # "send_failed" /\ fan_pc' = "send_failed") =>
            (FanNextMsg("event") /\ rx_count = 0)]_vars
    /\ [][(fan_pc = "stream" /\ rx_count = 0 /\ fan_log' = "all_gone") =>
            fan_log = "all_gone"]_vars
    /\ [][(fan_pc = "stream" /\ rx_count = 0 /\ ~FanNext) =>
            (fan_pc' = "stream" /\ UNCHANGED <<attempt, received_any, sleep_secs>>)]_vars

\* In its second subscription the task has passed on an event; the last
\* receiver has left since, and the task still awaits the stream.
C37_Witness ==
    /\ fan_pc = "stream"
    /\ rx_count = 0
    /\ received_any
    /\ attempt = 2
    /\ fan_log = "none"

\* C19: the task is always somewhere in its loop; outside the wait for the
\* daemon's stream it always has a step to take; a subscription that ends
\* is followed by the back-off and the back-off by the receiver check; and
\* from every back-off the task gets to stream again, or to the
\* one-second sleep when the check found no receiver.
C19_NoTerminalState ==
    /\ [](fan_pc \in {"check", "idle_sleep", "subscribe", "stream",
                      "send_failed", "backoff"})
    /\ [](fan_pc \in {"check", "idle_sleep", "send_failed", "backoff"} =>
            ENABLED (FanCheck \/ FanIdleWake \/ FanSendFailed \/ FanBackoffWake))
    /\ []((fan_pc = "subscribe" /\ attempt < MaxAttempt) => ENABLED FanSubscribe)
    /\ [][(fan_pc \in {"stream", "send_failed"}
            /\ fan_pc' \notin {"stream", "send_failed"}) => fan_pc' = "backoff"]_vars
    /\ [][(fan_pc = "backoff" /\ fan_pc' # "backoff") => fan_pc' = "check"]_vars
    /\ (fan_pc = "backoff" /\ attempt < MaxAttempt)
            ~> (fan_pc = "stream" \/ (fan_pc = "idle_sleep" /\ rx_count = 0))

\* After three subscriptions in a row that brought nothing, the task is
\* streaming again for the receiver that is still attached.
C19_Witness ==
    /\ fan_pc = "stream"
    /\ consec_fail = 3
    /\ attempt = 4
    /\ rx_count > 0

(* ------------------------------- main.rs ------------------------------ *)

\* main() has connected to Docker and is about to create the channel.
InitMain == InitWith("spawn_fanout", Task("unspawned", 0))

\* Lines 45-48: the channel is created and the fan-out task spawned.
MainSpawnFanout ==
    /\ main_pc = "spawn_fanout"
    /\ fan_task' = Task("running", fan_task.spawns + 1)
    /\ main_pc' = "bind"
    /\ UNCHANGED <<regVars, pollVars, fanVars, wsVars, poll_task>>

\* Line 63: TcpListener::bind(..).await? : on Err main returns it.
MainBind ==
    /\ main_pc = "bind"
    /\ \E ok \in BOOLEAN : main_pc' = IF ok THEN "spawn_metrics" ELSE "failed"
    /\ UNCHANGED <<regVars, pollVars, fanVars, wsVars, fan_task, poll_task>>

\* Line 76: the metric polling task is spawned.
MainSpawnMetrics ==
    /\ main_pc = "spawn_metrics"
    /\ poll_task' = Task("running", poll_task.spawns + 1)
    /\ main_pc' = "serve"
    /\ UNCHANGED <<regVars, pollVars, fanVars, wsVars, fan_task>>

\* Lines 91-93: axum::serve(..).with_graceful_shutdown(..).await? returns:
\* Ok once the shutdown signal has come and the server has stopped, or Err.
MainServe ==
    /\ main_pc = "serve"
    /\ \E ok \in BOOLEAN : main_pc' = IF ok THEN "abort_events" ELSE "failed"
    /\ UNCHANGED <<regVars, pollVars, fanVars, wsVars, fan_task, poll_task>>

\* Line 96: event_handle.abort()
MainAbortEvents ==
    /\ main_pc = "abort_events"
    /\ fan_task' = [fan_task EXCEPT !.st = "aborted"]
    /\ main_pc' = "join_events"
    /\ UNCHANGED <<regVars, pollVars, fanVars, wsVars, poll_task>>

\* The join that does not wait for the task to be gone.
MainJoinEventsDetached ==
    /\ main_pc = "join_events"
    /\ main_pc' = "abort_metrics"
    /\ UNCHANGED <<regVars, pollVars, fanVars, wsVars, fan_task, poll_task>>

\* Line 97: event_handle.await resolves (with the JoinError of a cancelled
\* task) once the runtime has dropped the task.
MainJoinEvents ==
    /\ main_pc = "join_events"
    /\ fan_task.st = "cancelled"
    /\ main_pc' = "abort_metrics"
    /\ UNCHANGED <<regVars, pollVars, fanVars, wsVars, fan_task, poll_task>>

\* Line 102: metric_handle.abort()
MainAbortMetrics ==
    /\ main_pc = "abort_metrics"
    /\ poll_task' = [poll_task EXCEPT !.st = "aborted"]
    /\ main_pc' = "join_metrics"
    /\ UNCHANGED <<regVars, pollVars, fanVars, wsVars, fan_task>>

\* Lines 103-108: metric_handle.await resolves, "terminated cleanly" is
\* logged and main returns Ok.
MainJoinMetrics ==
    /\ main_pc = "join_metrics"
    /\ poll_task.st = "cancelled"
    /\ main_pc' = "done"
    /\ UNCHANGED <<regVars, pollVars, fanVars, wsVars, fan_task, poll_task>>

\* The runtime drops an aborted task at the await it is suspended in.
FanCancelled ==
    /\ fan_task.st = "aborted"
    /\ fan_task' = [fan_task EXCEPT !.st = "cancelled"]
    /\ UNCHANGED <<regVars, pollVars, fanVars, wsVars, main_pc, poll_task>>

PollCancelled ==
    /\ poll_task.st = "aborted"
    /\ poll_task' = [poll_task EXCEPT !.st = "cancelled"]
    /\ UNCHANGED <<regVars, pollVars, fanVars, wsVars, main_pc, fan_task>>

\* What the fan-out task does with no client connected, while it runs.
FanRuns == fan_task.st = "running" /\ (FanCheck \/ FanIdleWake)

\* What the poller task does with a daemon that fails to list or does not
\* answer, while it runs.
PollRuns ==
    /\ poll_task.st = "running"
    /\ \/ PollTickAny \/ PollStart \/ PollListWith(ListFailed)
       \/ PollTimeout \/ PollWake

NextMain ==
    \/ MainSpawnFanout \/ MainBind \/ MainSpawnMetrics \/ MainServe
    \/ MainAbortEvents \/ MainJoinEvents \/ MainAbortMetrics \/ MainJoinMetrics
    \/ FanCancelled \/ PollCancelled
    \/ FanRuns \/ PollRuns

SpecMain == InitMain /\ [][NextMain]_vars

\* C20: each task is spawned once; neither is aborted before the server
\* has stopped; the poller is not aborted before the fan-out task is gone;
\* main returns Ok only with both tasks gone; and a task that is aborted
\* or gone takes no further step.
C20_Shutdown ==
    /\ [](fan_task.spawns <= 1 /\ poll_task.spawns <= 1)
    /\ [](main_pc \in {"serve", "abort_events", "join_events", "abort_metrics",
                       "join_metrics", "done"}
            => (fan_task.spawns = 1 /\ poll_task.spawns = 1))
    /\ []((fan_task.st \in {"aborted", "cancelled"} \/ poll_task.st \in {"aborted", "cancelled"})
            => main_pc \in {"join_events", "abort_metrics", "join_metrics", "done"})
    /\ [](poll_task.st \in {"aborted", "cancelled"} => fan_task.st = "cancelled")
    /\ [](main_pc = "done" => (fan_task.st = "cancelled" /\ poll_task.st = "cancelled"))
    /\ [][fan_task.st \in {"aborted", "cancelled"} =>
            (fan_task'.st # "running" /\ UNCHANGED <<fan_pc, attempt, sleep_secs>>)]_vars
    /\ [][poll_task.st \in {"aborted", "cancelled"} =>
            (poll_task'.st # "running" /\ UNCHANGED <<poll_pc, timer, cycles>>)]_vars

\* main has returned Ok after the poller had begun its second cycle and the
\* fan-out task was in its idle sleep; both tasks are gone.
C20_Witness ==
    /\ main_pc = "done"
    /\ fan_task = Task("cancelled", 1)
    /\ poll_task = Task("cancelled", 1)
    /\ cycles = 2
    /\ fan_pc = "idle_sleep"

(* ------------------- channel and handlers: properties ------------------ *)

\* C11: a receiver that fell more than the capacity behind is told of the
\* gap and its handler lives on: once rx.recv() has returned Lagged the
\* handler is still in its loop, receiving or forwarding.
C11_AsStated ==
    \A h \in Conns : ws[h].lagged => ws[h].pc \in {"recv", "send"}

\* C12: once a send to the socket of a disconnected client has failed, the
\* forwarding loop ends and the receiver is released: the step that
\* completes the failed send ends the handler and takes one off the
\* channel's receiver count.
C12_AsStated ==
    [][\A h \in Conns :
        (ws[h].pc = "send" /\ ~ws[h].open /\ ws'[h].pc # "send")
            => (ws'[h].pc = "done" /\ rx_count' = rx_count - 1)]_vars

\* C13: whatever the receivers have or have not read, the fan-out task in
\* its streaming loop can take the next event of the daemon's stream; a
\* publish with a receiver attached stores the event and is back at
\* stream.next() in the same step; and a receiver with an unread value can
\* take it whatever the other receivers do.
C13_PublisherNeverWaits ==
    /\ []((fan_pc = "stream" /\ upstream < MaxEvents) => ENABLED FanNextOn("event"))
    /\ [][(FanNextOn("event") /\ rx_count > 0) =>
            (chan' = Append(chan, upstream + 1) /\ fan_pc' = "stream")]_vars
    /\ [](\A h \in Conns :
            (ws[h].pc = "recv" /\ ws[h].next <= Len(chan)) => ENABLED WsRecv(h))

\* One receiver sits in its send with its oldest unread values overwritten,
\* the publisher is streaming, and another receiver has read everything.
C13_Witness ==
    \E h \in Conns : \E g \in Conns \ {h} :
        /\ fan_pc = "stream"
        /\ ws[h].pc = "send"
        /\ ws[h].next < oldest(chan)
        /\ ws[g].pc = "recv"
        /\ ws[g].next = Len(chan) + 1
        /\ Len(ws[g].got) > Capacity

\* C14: the channel carries the events in the order of their arrival on
\* the daemon's stream, none twice; and a receiver that has not lagged has
\* received, in that order and once each, the run of events sent since it
\* subscribed, all of them when it has nothing left to read.
C14_InOrderOnce ==
    /\ \A i \in 1..Len(chan) : chan[i] \in 1..upstream
    /\ \A i \in 1..(Len(chan) - 1) : chan[i] < chan[i + 1]
    /\ \A h \in Conns :
        (ws[h].pc # "none" /\ ~ws[h].lagged) =>
            /\ ws[h].next = ws[h].first + Len(ws[h].got)
            /\ ws[h].got = SubSeq(chan, ws[h].first, ws[h].next - 1)
            /\ (ws[h].pc = "recv" /\ ~ENABLED WsRecv(h)) => ws[h].next = Len(chan) + 1

\* A receiver that subscribed after the first event has received two later
\* ones, with an event in between that was never sent (it did not
\* serialize).
C14_Witness ==
    \E h \in Conns :
        /\ ws[h].first > 1
        /\ ~ws[h].lagged
        /\ Len(ws[h].got) = 2
        /\ ws[h].got[2] > ws[h].got[1] + 1

====
